---- MODULE Spec2Model ----
(***************************************************************************)
(* A model of the NES emulator cores of this repository.  The repository   *)
(* holds several variants of one emulator; the variable impl names the     *)
(* variant a behaviour runs:                                               *)
(*   "EMUNES5"   src/EMUNES5.23.251.0A.py                                  *)
(*   "Monika"    src/MonikaNES.py                                          *)
(*   "CATNES"    src/CATNES5.23.251.0AA.py                                 *)
(*   "CatNES4k"  src/CatNES4k.x.x.x1.0.a.a-e.py                            *)
(*   "CATEMU"    src/CATEMU5.23.251.0X.b.py                                *)
(* Objects are records holding the fields of the Python objects.  The      *)
(* rendering pipeline (shift registers, pixel buffers) only reads memory   *)
(* and writes the screen; it is projected away.                            *)
(***************************************************************************)
EXTENDS Integers, Sequences, FiniteSets, TLC

VARIABLES
    impl,   \* the source variant
    ppu,    \* the PPU2C02 object
    cpu,    \* the CPU6502 object
    bus,    \* the Bus object (clock counter, CPU RAM) and its fault state
    rom,    \* the loader's input buffer and the NESRom / Cartridge built from it
    obs     \* observers: counts of calls and signals, read by the properties only

vars == <<impl, ppu, cpu, bus, rom, obs>>

(***************************************************************************)
(* Bit arithmetic on non-negative integers, as Python's &, |, ^.           *)
(***************************************************************************)
RECURSIVE BitAnd(_, _)
BitAnd(a, b) ==
    IF a = 0 \/ b = 0 THEN 0
    ELSE (a % 2) * (b % 2) + 2 * BitAnd(a \div 2, b \div 2)

RECURSIVE BitOr(_, _)
BitOr(a, b) ==
    IF a = 0 THEN b
    ELSE IF b = 0 THEN a
    ELSE (IF a % 2 = 1 \/ b % 2 = 1 THEN 1 ELSE 0) + 2 * BitOr(a \div 2, b \div 2)

RECURSIVE BitXor(_, _)
BitXor(a, b) ==
    IF a = 0 THEN b
    ELSE IF b = 0 THEN a
    ELSE ((a + b) % 2) + 2 * BitXor(a \div 2, b \div 2)

\* x & ~m for non-negative x
AndNot(x, m) == x - BitAnd(x, m)

\* (x & m) != 0 for a one-bit mask m
HasBit(x, m) == (x \div m) % 2 = 1

(***************************************************************************)
(* A bytearray(n), all zero when made, is held as the function of its      *)
(* non-zero cells: two bytearrays are equal exactly when these are.  The   *)
(* length n, which Python checks on every index, is checked by the user.   *)
(***************************************************************************)
ZeroBytes == [i \in {} |-> 0]

Peek(mem, i) == IF i \in DOMAIN mem THEN mem[i] ELSE 0

Poke(mem, i, b) ==
    [j \in (DOMAIN mem \ {i}) \cup (IF b # 0 THEN {i} ELSE {}) |->
        IF j = i THEN b ELSE mem[j]]

(***************************************************************************)
(* PPU timing constants, as written in the sources' comparisons.           *)
(***************************************************************************)
LastCycle == 340
LastScanline == 261
VBlankScanline == 241
OamSize == 256

(***************************************************************************)
(* PPU2C02 of EMUNES5.                                                     *)
(***************************************************************************)
\* PPU2C02.__init__: the registers, OAM and counters after construction
E_PpuInit ==
    [ppuctrl |-> 0, ppumask |-> 0, ppustatus |-> 0, oamaddr |-> 0,
     v |-> 0, t |-> 0, x |-> 0, w |-> 0, f |-> 0, ppudata_buffer |-> 0,
     oam |-> ZeroBytes, vram |-> ZeroBytes, palette_ram |-> ZeroBytes,
     scanline |-> 0, cycle |-> 0, frame_complete |-> FALSE]

\* "if self.ppumask & 0x18"
E_Rendering(p) == BitAnd(p.ppumask, 24) # 0

E_increment_scroll_x(p, v) ==
    IF ~E_Rendering(p) THEN v
    ELSE IF BitAnd(v, 31) = 31 THEN BitXor(AndNot(v, 31), 1024)
    ELSE v + 1

E_increment_scroll_y(p, v) ==
    IF ~E_Rendering(p) THEN v
    ELSE IF BitAnd(v, 28672) # 28672 THEN v + 4096
    ELSE LET v0 == AndNot(v, 28672)
             y  == BitAnd(v0, 992) \div 32
             v1 == IF y = 29 THEN BitXor(v0, 2048) ELSE v0
             y1 == IF y = 29 \/ y = 31 THEN 0 ELSE y + 1
         IN  BitOr(AndNot(v1, 992), y1 * 32)

E_transfer_address_x(p, v) ==
    IF E_Rendering(p) THEN BitOr(AndNot(v, 1055), BitAnd(p.t, 1055)) ELSE v

E_transfer_address_y(p, v) ==
    IF E_Rendering(p) THEN BitOr(AndNot(v, 31712), BitAnd(p.t, 31712)) ELSE v

\* the condition under which clock() sets the VBlank flag
E_VBlankDot(s, c) == s >= VBlankScanline /\ s <= 260 /\ s = VBlankScanline /\ c = 1

\* a clock() that enters the NMI at every start of VBlank, enabled or not
NmiIgnoringEnable(p, s, c) == E_VBlankDot(s, c)

\* the condition under which clock() calls cpu.non_maskable_interrupt()
E_NmiDue(p, s, c) == E_VBlankDot(s, c) /\ BitAnd(p.ppuctrl, 128) # 0

\* the "sprite zero hit" placeholder at the end of clock()
E_SpriteZeroHit(p, s, c) ==
    /\ BitAnd(p.ppumask, 24) # 0 /\ s < 240
    /\ Peek(p.oam, 0) <= s /\ s < Peek(p.oam, 0) + 8
    /\ Peek(p.oam, 3) <= c - 1 /\ c - 1 < Peek(p.oam, 3) + 8
    /\ BitAnd(p.ppumask, 24) = 24
    /\ ~(BitAnd(p.ppumask, 6) = 0 /\ c < 9)

\* "Advance counters": the cycle and scanline after one clock, and whether the
\* frame wrapped
E_Advance(s, c) ==
    LET c1 == c + 1
        wrap == c1 > LastCycle
        s1 == IF wrap THEN s + 1 ELSE s
        frame == wrap /\ s1 > LastScanline
    IN  [cycle |-> IF wrap THEN 0 ELSE c1,
         scanline |-> IF frame THEN 0 ELSE s1,
         frame |-> frame]

\* PPU2C02.clock(): the PPU after one clock, with what the call did besides:
\* nmi (it called the CPU's NMI entry), dot (it ran scanline 241 cycle 1),
\* frame (it set frame_complete)
E_PpuClock(p) ==
    LET s == p.scanline
        visible == s >= 0 /\ s <= 239
        pre == ~visible /\ s # 240 /\ ~(s >= 241 /\ s <= 260) /\ s = LastScanline
        c1 == IF visible /\ s = 0 /\ p.cycle = 0 THEN 1 ELSE p.cycle
        v1 == IF visible /\ ((c1 >= 2 /\ c1 <= 257) \/ (c1 >= 321 /\ c1 <= 336))
                         /\ (c1 - 1) % 8 = 7
              THEN E_increment_scroll_x(p, p.v) ELSE p.v
        v2 == IF visible /\ c1 = 256 THEN E_increment_scroll_y(p, v1) ELSE v1
        v3 == IF visible /\ c1 = 257 THEN E_transfer_address_x(p, v2) ELSE v2
        st1 == IF E_VBlankDot(s, c1) THEN BitOr(p.ppustatus, 128)
               ELSE IF pre /\ c1 = 1 THEN AndNot(p.ppustatus, 224)
               ELSE p.ppustatus
        v4 == IF pre /\ c1 >= 280 /\ c1 <= 304 THEN E_transfer_address_y(p, v3) ELSE v3
        c2 == IF pre /\ c1 = 339 /\ p.f # 0 THEN 340 ELSE c1
        st2 == IF E_SpriteZeroHit(p, s, c2) THEN BitOr(st1, 64) ELSE st1
        adv == E_Advance(s, c2)
    IN  [ppu |-> [p EXCEPT !.v = v4, !.ppustatus = st2,
                           !.cycle = adv.cycle, !.scanline = adv.scanline,
                           !.frame_complete = IF adv.frame THEN TRUE ELSE @,
                           !.f = IF adv.frame THEN BitXor(@, 1) ELSE @],
         nmi |-> E_NmiDue(p, s, c1),
         dot |-> s = VBlankScanline /\ c1 = 1,
         frame |-> adv.frame]

\* PPU2C02.cpu_write(addr, data) for the ports other than PPUDATA
E_PpuCpuWrite(p, addr, data) ==
    CASE addr = 8192 ->
           [p EXCEPT !.ppuctrl = data,
                     !.t = BitOr(BitAnd(p.t, 62463), BitAnd(data, 3) * 1024)]
      [] addr = 8193 -> [p EXCEPT !.ppumask = data]
      [] addr = 8195 -> [p EXCEPT !.oamaddr = data]
      [] addr = 8196 ->
           [p EXCEPT !.oam = Poke(@, p.oamaddr, data),
                     !.oamaddr = BitAnd(p.oamaddr + 1, 255)]
      [] addr = 8197 ->
           IF p.w = 0
           THEN [p EXCEPT !.t = BitOr(BitAnd(p.t, 65504), data \div 8),
                          !.x = BitAnd(data, 7), !.w = 1]
           ELSE [p EXCEPT !.t = BitOr(BitAnd(BitOr(BitAnd(p.t, 36863),
                                                   BitAnd(data, 7) * 4096), 64543),
                                      BitAnd(data, 248) * 4),
                          !.w = 0]
      [] addr = 8198 ->
           IF p.w = 0
           THEN [p EXCEPT !.t = BitOr(BitAnd(p.t, 33023), BitAnd(data, 63) * 256),
                          !.w = 1]
           ELSE [p EXCEPT !.t = BitOr(BitAnd(p.t, 65280), data),
                          !.v = BitOr(BitAnd(p.t, 65280), data), !.w = 0]
      [] OTHER -> p

\* a status read that clears VBlank and leaves the write toggle as it was
StatusReadKeepingToggle(p, addr) ==
    CASE addr = 8194 ->
           [ppu |-> [p EXCEPT !.ppustatus = AndNot(p.ppustatus, 128)],
            data |-> BitOr(BitAnd(p.ppustatus, 224), BitAnd(p.ppudata_buffer, 31))]
      [] addr = 8196 -> [ppu |-> p, data |-> Peek(p.oam, p.oamaddr)]
      [] OTHER -> [ppu |-> p, data |-> 0]

\* PPU2C02.cpu_read(addr) for the ports other than PPUDATA: the PPU after the
\* read and the byte returned
E_PpuCpuRead(p, addr) ==
    CASE addr = 8194 ->
           [ppu |-> [p EXCEPT !.ppustatus = AndNot(p.ppustatus, 128), !.w = 0],
            data |-> BitOr(BitAnd(p.ppustatus, 224), BitAnd(p.ppudata_buffer, 31))]
      [] addr = 8196 -> [ppu |-> p, data |-> Peek(p.oam, p.oamaddr)]
      [] OTHER -> [ppu |-> p, data |-> 0]

(***************************************************************************)
(* PPU2C02 of MonikaNES.                                                   *)
(***************************************************************************)
M_PpuInit ==
    [PPUCTRL |-> 0, PPUMASK |-> 0, PPUSTATUS |-> 0, OAMADDR |-> 0,
     vram_addr |-> 0, temp_vram_addr |-> 0, fine_x |-> 0, address_latch |-> 0,
     buffer_data |-> 0, oam |-> ZeroBytes, oam_data |-> 0,
     vram |-> ZeroBytes, palette_ram |-> ZeroBytes,
     scanline |-> 0, cycle |-> 0, frame_complete |-> FALSE, nmi_triggered |-> FALSE]

\* "(self.PPUMASK >> 3) & 1 or (self.PPUMASK >> 4) & 1"
M_Rendering(p) == HasBit(p.PPUMASK, 8) \/ HasBit(p.PPUMASK, 16)

M_increment_h(v) ==
    IF BitAnd(v, 31) = 31 THEN BitXor(AndNot(v, 31), 1024) ELSE v + 1

\* a vertical increment that wraps coarse Y at 31 alone, toggling the vertical
\* nametable bit there
WrapAt31Only(v) ==
    IF BitAnd(v, 28672) # 28672 THEN v + 4096
    ELSE LET v0 == AndNot(v, 28672)
             y  == BitAnd(v0, 992) \div 32
             v1 == IF y = 31 THEN BitXor(v0, 2048) ELSE v0
             y1 == IF y = 31 THEN 0 ELSE y + 1
         IN  BitOr(AndNot(v1, 992), y1 * 32)

M_increment_v(v) ==
    IF BitAnd(v, 28672) # 28672 THEN v + 4096
    ELSE LET v0 == AndNot(v, 28672)
             y  == BitAnd(v0, 992) \div 32
             v1 == IF y = 29 THEN BitXor(v0, 2048) ELSE v0
             y1 == IF y = 29 \/ y = 31 THEN 0 ELSE y + 1
         IN  BitOr(AndNot(v1, 992), y1 * 32)

M_transfer_x(v, t) ==
    LET a == BitOr(BitAnd(v, 65504), BitAnd(t, 31))
    IN  BitOr(BitAnd(a, 62463), BitAnd(t, 1024))

M_transfer_y(v, t) ==
    LET a == BitOr(BitAnd(v, 36863), BitAnd(t, 28672))
        b == BitOr(BitAnd(a, 64543), BitAnd(t, 992))
    IN  BitOr(BitAnd(b, 64511), BitAnd(t, 2048))

\* the branch "elif self.scanline == 241 and self.cycle == 1" of clock()
M_VBlankDot(s, c) == ~(s >= 0 /\ s <= 239) /\ s = VBlankScanline /\ c = 1

\* the condition under which clock() calls cpu.non_maskable_interrupt()
M_NmiDue(p, s, c) == M_VBlankDot(s, c) /\ HasBit(p.PPUCTRL, 128) /\ ~p.nmi_triggered

\* "Update cycle and scanline" at the end of clock()
M_Advance(s, c) ==
    LET c1 == c + 1
        wrap == c1 > 340
        s1 == IF wrap THEN s + 1 ELSE s
        frame == wrap /\ s1 > 261
    IN  [cycle |-> IF wrap THEN 0 ELSE c1,
         scanline |-> IF frame THEN 0 ELSE s1,
         frame |-> frame]

\* PPU2C02.clock(): as E_PpuClock
M_PpuClock(p) ==
    LET s == p.scanline
        c == p.cycle
        visible == s >= 0 /\ s <= 239
        dot == M_VBlankDot(s, c)
        pre == ~visible /\ ~dot /\ s = LastScanline
        on == M_Rendering(p)
        v1 == IF visible /\ c = 256 /\ on THEN M_increment_h(p.vram_addr)
              ELSE IF visible /\ c = 257 /\ on THEN M_transfer_x(p.vram_addr, p.temp_vram_addr)
              ELSE p.vram_addr
        v2 == IF pre /\ c = 257 /\ on THEN M_transfer_x(v1, p.temp_vram_addr)
              ELSE IF pre /\ c >= 280 /\ c <= 304 /\ on THEN M_transfer_y(v1, p.temp_vram_addr)
              ELSE v1
        v3 == IF pre /\ c = 256 /\ on THEN M_increment_v(v2) ELSE v2
        st == IF dot THEN BitOr(p.PPUSTATUS, 128)
              ELSE IF pre /\ c = 1 THEN AndNot(AndNot(AndNot(p.PPUSTATUS, 128), 64), 32)
              ELSE p.PPUSTATUS
        nmi == M_NmiDue(p, s, c)
        trig == IF nmi THEN TRUE
                ELSE IF pre /\ c = 1 THEN FALSE
                ELSE p.nmi_triggered
        adv == M_Advance(s, c)
    IN  [ppu |-> [p EXCEPT !.vram_addr = v3, !.PPUSTATUS = st, !.nmi_triggered = trig,
                           !.cycle = adv.cycle, !.scanline = adv.scanline,
                           !.frame_complete = IF adv.frame THEN TRUE ELSE @],
         nmi |-> nmi,
         dot |-> s = VBlankScanline /\ c = 1,
         frame |-> adv.frame]

\* PPU2C02.cpu_write(addr, data) for the ports other than PPUDATA
M_PpuCpuWrite(p, addr, data) ==
    CASE addr = 8192 ->
           [p EXCEPT !.PPUCTRL = data,
                     !.temp_vram_addr = BitOr(BitAnd(@, 62463), BitAnd(data, 3) * 1024)]
      [] addr = 8193 -> [p EXCEPT !.PPUMASK = data]
      [] addr = 8195 -> [p EXCEPT !.OAMADDR = data]
      [] addr = 8196 ->
           [p EXCEPT !.oam = Poke(@, p.OAMADDR, data),
                     !.OAMADDR = BitAnd(p.OAMADDR + 1, 255)]
      [] addr = 8197 ->
           IF p.address_latch = 0
           THEN [p EXCEPT !.fine_x = BitAnd(data, 7),
                          !.temp_vram_addr = BitOr(BitAnd(@, 65504), BitAnd(data \div 8, 31)),
                          !.address_latch = 1]
           ELSE [p EXCEPT !.temp_vram_addr =
                              BitOr(BitAnd(BitOr(BitAnd(@, 36863), BitAnd(data, 7) * 4096),
                                           64543),
                                    BitAnd(data \div 8, 31) * 32),
                          !.address_latch = 0]
      [] addr = 8198 ->
           IF p.address_latch = 0
           THEN [p EXCEPT !.temp_vram_addr = BitOr(BitAnd(@, 255), BitAnd(data, 63) * 256),
                          !.address_latch = 1]
           ELSE [p EXCEPT !.temp_vram_addr = BitOr(BitAnd(@, 65280), data),
                          !.vram_addr = BitOr(BitAnd(p.temp_vram_addr, 65280), data),
                          !.address_latch = 0]
      [] OTHER -> p

\* PPU2C02.cpu_read(addr) for the ports other than PPUDATA
M_PpuCpuRead(p, addr) ==
    CASE addr = 8194 ->
           [ppu |-> [p EXCEPT !.PPUSTATUS = BitAnd(p.PPUSTATUS, 127),
                              !.address_latch = 0, !.nmi_triggered = FALSE],
            data |-> BitOr(BitAnd(p.PPUSTATUS, 224), BitAnd(p.buffer_data, 31))]
      [] addr = 8196 -> [ppu |-> p, data |-> Peek(p.oam, p.OAMADDR)]
      [] OTHER -> [ppu |-> p, data |-> 0]

(***************************************************************************)
(* PPU2C02 of CATNES.                                                      *)
(***************************************************************************)
C_PpuInit ==
    [PPUCTRL |-> 0, PPUMASK |-> 0, PPUSTATUS |-> 0, OAMADDR |-> 0,
     oam |-> ZeroBytes, oam_addr |-> 0,
     vram_addr |-> 0, tram_addr |-> 0, fine_x_scroll |-> 0, addr_latch |-> FALSE,
     internal_data_buffer |-> 0,
     scanline |-> 0, cycle |-> 0, frame_complete |-> FALSE, nmi_occurred |-> FALSE]

\* "if self.scanline == 241 and self.cycle == 1: # VBlank starts"
C_VBlankDot(s, c) == s = VBlankScanline /\ c = 1

\* the condition under which clock() requests an NMI (nmi_occurred = True)
C_NmiDue(p, s, c) == C_VBlankDot(s, c) /\ HasBit(p.PPUCTRL, 128)

C_PpuClock(p) ==
    LET s == p.scanline
        c == p.cycle
        dot == C_VBlankDot(s, c)
        pre == s = LastScanline
        st1 == IF dot THEN BitOr(p.PPUSTATUS, 128) ELSE p.PPUSTATUS
        st2 == IF pre THEN AndNot(AndNot(AndNot(st1, 128), 64), 32) ELSE st1
        v1 == IF pre /\ (HasBit(p.PPUMASK, 8) \/ HasBit(p.PPUMASK, 16))
              THEN p.tram_addr ELSE p.vram_addr
        c1 == c + 1
        wrap == c1 >= 341
        s1 == IF wrap THEN s + 1 ELSE s
    IN  [ppu |-> [p EXCEPT !.PPUSTATUS = st2, !.vram_addr = v1,
                           !.frame_complete = IF dot THEN TRUE ELSE @,
                           !.nmi_occurred = IF C_NmiDue(p, s, c) THEN TRUE ELSE @,
                           !.cycle = IF wrap THEN 0 ELSE c1,
                           !.scanline = IF wrap /\ s1 >= 262 THEN 0 ELSE s1],
         nmi |-> FALSE,
         dot |-> dot,
         frame |-> dot]

C_PpuCpuWrite(p, addr, data) ==
    CASE addr = 0 ->
           [p EXCEPT !.PPUCTRL = data,
                     !.tram_addr = BitOr(BitAnd(@, 62463), BitAnd(data, 3) * 1024)]
      [] addr = 1 -> [p EXCEPT !.PPUMASK = data]
      [] addr = 3 -> [p EXCEPT !.OAMADDR = data, !.oam_addr = data]
      [] addr = 4 ->
           [p EXCEPT !.oam = Poke(@, p.oam_addr, data),
                     !.oam_addr = BitAnd(p.oam_addr + 1, 255)]
      [] addr = 5 ->
           IF ~p.addr_latch
           THEN [p EXCEPT !.fine_x_scroll = BitAnd(data, 7),
                          !.tram_addr = BitOr(BitAnd(@, 65504), data \div 8),
                          !.addr_latch = TRUE]
           ELSE [p EXCEPT !.tram_addr = BitOr(BitOr(BitAnd(@, 35871), BitAnd(data, 248) * 4),
                                              BitAnd(data, 7) * 4096),
                          !.addr_latch = FALSE]
      [] addr = 6 ->
           IF ~p.addr_latch
           THEN [p EXCEPT !.tram_addr = BitOr(BitAnd(@, 255), BitAnd(data, 63) * 256),
                          !.addr_latch = TRUE]
           ELSE [p EXCEPT !.tram_addr = BitOr(BitAnd(@, 65280), data),
                          !.vram_addr = BitOr(BitAnd(p.tram_addr, 65280), data),
                          !.addr_latch = FALSE]
      [] OTHER -> p

C_PpuCpuRead(p, addr) ==
    CASE addr = 2 ->
           [ppu |-> [p EXCEPT !.PPUSTATUS = AndNot(p.PPUSTATUS, 128), !.addr_latch = FALSE],
            data |-> BitOr(BitAnd(p.PPUSTATUS, 224), BitAnd(p.internal_data_buffer, 31))]
      [] addr = 4 -> [ppu |-> p, data |-> Peek(p.oam, p.oam_addr)]
      [] OTHER -> [ppu |-> p, data |-> 0]

(***************************************************************************)
(* PPU of CatNES4k.                                                        *)
(***************************************************************************)
K_PpuInit ==
    [ppuctrl |-> 0, ppumask |-> 0, ppustatus |-> 0, oamaddr |-> 0,
     ppuscroll |-> 0, ppuaddr |-> 0,
     vram_address_latch |-> 0, is_first_write_latch |-> TRUE,
     scanline |-> 0, cycle |-> 0,
     vblank_active |-> FALSE, nmi_occurred |-> FALSE, nmi_enabled_in_ctrl |-> FALSE]

\* one iteration of the loop of tick(): the VBlank tests are statements of the
\* block "if self.cycle >= 341", after its "self.cycle = 0"
K_TickOnce(p) ==
    LET c1 == p.cycle + 1
        wrap == c1 >= 341
        c2 == IF wrap THEN 0 ELSE c1
        s1 == IF wrap THEN p.scanline + 1 ELSE p.scanline
        top == wrap /\ s1 >= 262
        s2 == IF top THEN 0 ELSE s1
        start == wrap /\ s2 = VBlankScanline /\ c2 = 1
        stop == wrap /\ ~start /\ s2 = LastScanline /\ c2 = 1
    IN  [p EXCEPT !.cycle = c2, !.scanline = s2,
                  !.vblank_active = IF start /\ ~p.vblank_active THEN TRUE
                                    ELSE IF stop THEN FALSE ELSE @,
                  !.nmi_occurred = IF start /\ ~p.vblank_active /\ p.nmi_enabled_in_ctrl
                                   THEN TRUE
                                   ELSE IF top THEN FALSE ELSE @]

\* tick(cpu_cycles_elapsed) run for n = cpu_cycles_elapsed * 3 iterations: the
\* PPU after them, and dot: some iteration left it at scanline 241 cycle 1
RECURSIVE K_TickLoop(_, _)
K_TickLoop(p, n) ==
    IF n = 0 THEN [ppu |-> p, dot |-> FALSE]
    ELSE LET q == K_TickOnce(p)
             r == K_TickLoop(q, n - 1)
         IN  [ppu |-> r.ppu,
              dot |-> r.dot \/ (q.scanline = VBlankScanline /\ q.cycle = 1)]

K_tick(p, cpu_cycles_elapsed) == K_TickLoop(p, cpu_cycles_elapsed * 3)

\* a write_register whose PPUADDR writes keep all eight bits of the high byte
AddrHighUnmasked(p, addr, value) ==
    IF addr # 6 THEN p
    ELSE IF p.is_first_write_latch
    THEN [p EXCEPT !.vram_address_latch = value * 256, !.is_first_write_latch = FALSE]
    ELSE [p EXCEPT !.ppuaddr = BitOr(p.vram_address_latch, value),
                   !.is_first_write_latch = TRUE]

K_write_register(p, addr, value) ==
    CASE addr = 0 -> [p EXCEPT !.ppuctrl = value,
                               !.nmi_enabled_in_ctrl = BitAnd(value, 128) # 0]
      [] addr = 1 -> [p EXCEPT !.ppumask = value]
      [] addr = 3 -> [p EXCEPT !.oamaddr = value]
      [] addr = 5 -> [p EXCEPT !.is_first_write_latch = ~@, !.ppuscroll = value]
      [] addr = 6 ->
           IF p.is_first_write_latch
           THEN [p EXCEPT !.vram_address_latch = BitAnd(value, 63) * 256,
                          !.is_first_write_latch = FALSE]
           ELSE [p EXCEPT !.ppuaddr = BitOr(p.vram_address_latch, value),
                          !.is_first_write_latch = TRUE]
      [] OTHER -> p

K_read_register(p, addr) ==
    CASE addr = 2 ->
           [ppu |-> [p EXCEPT !.vblank_active = FALSE, !.is_first_write_latch = TRUE],
            data |-> BitOr(BitAnd(p.ppustatus, 224), IF p.vblank_active THEN 128 ELSE 0)]
      [] OTHER -> [ppu |-> p, data |-> 0]

(***************************************************************************)
(* PPU of CATEMU.                                                          *)
(***************************************************************************)
\* PPU.__init__ and reset(): "self.scanline = self.cycle = 0"
X_PpuInit == [scanline |-> 0, cycle |-> 0]

\* "self.cycle += cpu_cycles"
X_tick(p, cpu_cycles) == [p EXCEPT !.cycle = @ + cpu_cycles]

\* the register stubs: write_register does nothing, read_register returns 0
X_write_register(p, addr, val) == p

X_read_register(p, addr) == [ppu |-> p, data |-> 0]

(***************************************************************************)
(* The PPU seen through its variant.  The PPU never reads the CPU, so the  *)
(* specifications of PPU timing observe the calls of the CPU's NMI entry   *)
(* (obs.nmis) and leave the CPU's registers out.                           *)
(***************************************************************************)
ClockedImpls == {"EMUNES5", "Monika", "CATNES"}
TickedImpls == {"CatNES4k", "CATEMU"}
Impls == ClockedImpls \cup TickedImpls

PpuInitOf(i) ==
    CASE i = "EMUNES5" -> E_PpuInit
      [] i = "Monika" -> M_PpuInit
      [] i = "CATNES" -> C_PpuInit
      [] i = "CatNES4k" -> K_PpuInit
      [] i = "CATEMU" -> X_PpuInit

PpuClockOf(i, p) ==
    CASE i = "EMUNES5" -> E_PpuClock(p)
      [] i = "Monika" -> M_PpuClock(p)
      [] i = "CATNES" -> C_PpuClock(p)

\* a CPU write of PPUCTRL through the Bus (EMUNES5, Monika: 0x2000; the others
\* pass the register number)
WriteCtrlOf(i, p, d) ==
    CASE i = "EMUNES5" -> E_PpuCpuWrite(p, 8192, d)
      [] i = "Monika" -> M_PpuCpuWrite(p, 8192, d)
      [] i = "CATNES" -> C_PpuCpuWrite(p, 0, d)
      [] i = "CatNES4k" -> K_write_register(p, 0, d)
      [] i = "CATEMU" -> X_write_register(p, 0, d)

\* a CPU read of PPUSTATUS through the Bus
ReadStatusOf(i, p) ==
    CASE i = "EMUNES5" -> E_PpuCpuRead(p, 8194)
      [] i = "Monika" -> M_PpuCpuRead(p, 8194)
      [] i = "CATNES" -> C_PpuCpuRead(p, 2)
      [] i = "CatNES4k" -> K_read_register(p, 2)
      [] i = "CATEMU" -> X_read_register(p, 2)

\* the VBlank bit of the status register
VBlankFlag(i, p) ==
    CASE i = "EMUNES5" -> BitAnd(p.ppustatus, 128) # 0
      [] i = "Monika" -> BitAnd(p.PPUSTATUS, 128) # 0
      [] i = "CATNES" -> BitAnd(p.PPUSTATUS, 128) # 0
      [] i = "CatNES4k" -> p.vblank_active
      [] i = "CATEMU" -> FALSE

\* the NMI-enable bit of the control register
NmiEnable(i, p) ==
    CASE i = "EMUNES5" -> BitAnd(p.ppuctrl, 128) # 0
      [] i = "Monika" -> BitAnd(p.PPUCTRL, 128) # 0
      [] i = "CATNES" -> BitAnd(p.PPUCTRL, 128) # 0
      [] i = "CatNES4k" -> p.nmi_enabled_in_ctrl
      [] i = "CATEMU" -> FALSE

\* the objects a specification does not run
Absent == [absent |-> TRUE]

\* bytes the modelled programs write to PPUCTRL: NMI disabled, NMI enabled
CtrlValues == {0, 128}
\* CPU cycle counts handed to tick()
TickCycles == {2, 3}
\* scanlines at which a behaviour of the PPU timing specification starts
StartScanlines == {0, 240}
\* the largest cycle value of CATEMU the model follows
MaxTickedCycle == 400
\* the largest count of NMI entries in one frame the model tells apart
MaxNmis == 2

ObsInit == [clocks |-> 0, frames |-> 0, dot |-> FALSE, enable |-> "none", nmis |-> 0]

\* the observers after PPU clocks that ran (dot) scanline 241 cycle 1 with the
\* NMI-enable bit at value en, entered the CPU's NMI n times, and (wrapped)
\* started a new frame
ObsAfter(o, dot, en, n, wrapped) ==
    [o EXCEPT !.dot = dot,
              !.enable = IF wrapped THEN "none"
                         ELSE IF dot THEN (IF en THEN "set" ELSE "clear")
                         ELSE @,
              !.nmis = IF wrapped THEN 0
                       ELSE IF @ + n > MaxNmis THEN MaxNmis ELSE @ + n]

(***************************************************************************)
(* PPU timing under the host drivers: the frame loops "while not           *)
(* frame_complete: bus.clock()" of EMUNES5 and MonikaNES, emulation_loop   *)
(* of CATNES and CatNES4k, _loop of CATEMU.  The CPU's part of a loop      *)
(* iteration reaches the PPU only through register accesses, which are the *)
(* actions WriteCtrl and ReadStatus.                                       *)
(***************************************************************************)
\* a PPU as constructed, or as the frame loop leaves it at the start of a later
\* scanline when the program has touched no register (CATEMU never leaves
\* scanline 0)
InitTiming(variants) ==
    /\ impl \in variants
    /\ \E s \in StartScanlines :
          /\ impl = "CATEMU" => s = 0
          /\ ppu = [PpuInitOf(impl) EXCEPT !.scanline = s]
    /\ cpu = Absent /\ bus = Absent /\ rom = Absent
    /\ obs = ObsInit

\* the variants whose scanline and cycle counters and VBlank flag are compared
InitPpu == InitTiming({"EMUNES5", "Monika", "CatNES4k", "CATEMU"})

\* the variants that raise an NMI to the CPU from clock()
InitNmi == InitTiming(ClockedImpls)

\* EMUNES5, MonikaNES: the ppu.clock() of one Bus.clock() of the frame loop
PpuClock ==
    /\ impl \in {"EMUNES5", "Monika"}
    /\ ~ppu.frame_complete
    /\ LET r == PpuClockOf(impl, ppu)
       IN  /\ ppu' = r.ppu
           /\ obs' = ObsAfter(obs, r.dot, NmiEnable(impl, ppu),
                              IF r.nmi THEN 1 ELSE 0, r.frame)
    /\ UNCHANGED <<impl, cpu, bus, rom>>

\* CATNES emulation_loop, one iteration: three ppu.clock(), then cpu.nmi() if
\* the PPU requested it
C_LoopStep ==
    /\ impl = "CATNES"
    /\ ~ppu.frame_complete
    /\ LET r1 == C_PpuClock(ppu)
           r2 == C_PpuClock(r1.ppu)
           r3 == C_PpuClock(r2.ppu)
       IN  /\ ppu' = [r3.ppu EXCEPT !.nmi_occurred = FALSE]
           /\ obs' = ObsAfter(obs, r1.dot \/ r2.dot \/ r3.dot, NmiEnable(impl, ppu),
                              IF r3.ppu.nmi_occurred THEN 1 ELSE 0,
                              r3.ppu.scanline < ppu.scanline)
    /\ UNCHANGED <<impl, cpu, bus, rom>>

\* the hosts' end of a frame: "self.ppu.frame_complete = False"
HostEndFrame ==
    /\ impl \in ClockedImpls
    /\ ppu.frame_complete
    /\ ppu' = [ppu EXCEPT !.frame_complete = FALSE]
    /\ obs' = [obs EXCEPT !.dot = FALSE]
    /\ UNCHANGED <<impl, cpu, bus, rom>>

\* CatNES4k emulation_loop, one iteration: cpu.nmi() if the PPU requested it,
\* then ppu.tick() with the cycle count cpu.step() returned
K_LoopStep(k) ==
    /\ impl = "CatNES4k"
    /\ LET r == K_tick([ppu EXCEPT !.nmi_occurred = FALSE], k)
       IN  /\ ppu' = r.ppu
           /\ obs' = ObsAfter(obs, r.dot, NmiEnable(impl, ppu),
                              IF ppu.nmi_occurred THEN 1 ELSE 0,
                              r.ppu.scanline < ppu.scanline)
    /\ UNCHANGED <<impl, cpu, bus, rom>>

\* CATEMU _loop, one iteration: ppu.tick() with the cycle count of the frame
X_LoopStep(k) ==
    /\ impl = "CATEMU"
    /\ ppu.cycle + k <= MaxTickedCycle
    /\ ppu' = X_tick(ppu, k)
    /\ UNCHANGED <<impl, cpu, bus, rom, obs>>

\* a CPU instruction of the running program writes d to PPUCTRL
WriteCtrl(d) ==
    /\ impl \in ClockedImpls => ~ppu.frame_complete
    /\ ppu' = WriteCtrlOf(impl, ppu, d)
    /\ obs' = [obs EXCEPT !.dot = FALSE]
    /\ UNCHANGED <<impl, cpu, bus, rom>>

\* a CPU instruction of the running program reads PPUSTATUS
ReadStatus ==
    /\ impl \in ClockedImpls => ~ppu.frame_complete
    /\ ppu' = ReadStatusOf(impl, ppu).ppu
    /\ obs' = [obs EXCEPT !.dot = FALSE]
    /\ UNCHANGED <<impl, cpu, bus, rom>>

NextPpu ==
    \/ PpuClock
    \/ HostEndFrame
    \/ \E k \in TickCycles : K_LoopStep(k)
    \/ \E k \in TickCycles : X_LoopStep(k)
    \/ \E d \in CtrlValues : WriteCtrl(d)
    \/ ReadStatus

SpecPpu == InitPpu /\ [][NextPpu]_vars

NextNmi ==
    \/ PpuClock
    \/ C_LoopStep
    \/ HostEndFrame
    \/ \E d \in CtrlValues : WriteCtrl(d)
    \/ ReadStatus

SpecNmi == InitNmi /\ [][NextNmi]_vars

(***************************************************************************)
(* A PPU clocked on its own from the start of the pre-render scanline: the *)
(* state the frame loop leaves when the program has read PPUSTATUS during  *)
(* VBlank and the host has taken the frame.  EMUNES5 is there with its     *)
(* frame-parity flag f at 0 (first frame) or 1 (every second frame).       *)
(***************************************************************************)
FrameClocks == 262 * 341

InitFrame ==
    /\ impl \in ClockedImpls
    /\ \E parity \in {0, 1} :
          /\ impl # "EMUNES5" => parity = 0
          /\ ppu = IF impl = "EMUNES5"
                   THEN [E_PpuInit EXCEPT !.scanline = LastScanline, !.f = parity]
                   ELSE [PpuInitOf(impl) EXCEPT !.scanline = LastScanline]
    /\ cpu = Absent /\ bus = Absent /\ rom = Absent
    /\ obs = ObsInit

\* one ppu.clock() of the FrameClocks driven
FrameClock ==
    /\ obs.clocks < FrameClocks
    /\ LET r == PpuClockOf(impl, ppu)
       IN  /\ ppu' = r.ppu
           /\ obs' = [obs EXCEPT !.clocks = @ + 1,
                                 !.frames = IF r.frame THEN @ + 1 ELSE @]
    /\ UNCHANGED <<impl, cpu, bus, rom>>

NextFrame == FrameClock

SpecFrame == InitFrame /\ [][NextFrame]_vars

\* C2: driving exactly 262 x 341 PPU clocks from the start of the pre-render
\* scanline (261, 0) sets frame_complete exactly once and leaves the PPU at
\* scanline 261, cycle 0 again.
C2_FrameClocksReturn ==
    obs.clocks = FrameClocks =>
        obs.frames = 1 /\ ppu.scanline = LastScanline /\ ppu.cycle = 0

\* C3: after any PPU clock/tick calls and register accesses the scanline is in
\* 0..261 and the cycle in 0..340.
C3_CountersInRange ==
    ppu.scanline \in 0..LastScanline /\ ppu.cycle \in 0..LastCycle

\* C7: a step that takes the PPU through scanline 241 cycle 1 leaves the VBlank
\* bit of the status register set.
C7_VBlankSetAtDot == obs.dot => VBlankFlag(impl, ppu)

\* C8: in a frame where the NMI-enable bit is set when the PPU runs scanline 241
\* cycle 1, the CPU's NMI entry is called exactly once; in a frame where the bit
\* is clear there, and before that point of any frame, it is not called.
C8_NmiOncePerFrame == obs.nmis = (IF obs.enable = "set" THEN 1 ELSE 0)

\* a frame whose VBlank started with the NMI enabled has run on to scanline 260
C8_Witness == obs.enable = "set" /\ obs.nmis = 1 /\ ppu.scanline = 260

(***************************************************************************)
(* The programs run on the Bus.  A cartridge image is one 16 KB PRG bank    *)
(* holding                                                                  *)
(*     LDA #ctrl ; STA $2000 ; [LDA $00] ; NOP x sled ;                     *)
(*     LDA #page ; STA $4014 ; loop: JMP loop                               *)
(* with the reset vector at the first instruction and the NMI vector at     *)
(* loop.  The optional LDA $00 takes an odd number of CPU cycles, so the    *)
(* two images that differ in it write the DMA port on CPU cycles of         *)
(* opposite parity.                                                         *)
(***************************************************************************)
\* the NOPs before the DMA: the write to $4014 comes a few hundred CPU cycles
\* before the PPU reaches scanline 241
SledNops == 13590
\* the Bus.clock() calls of a behaviour that counts them: a little over one frame
MaxCalls == 90000

PrgBank == 16384

\* The programs that exercise the CPU, [code, arg]: each starts at 0x8000, where
\* the reset vector points; the NMI and IRQ vectors point at 0x8010, which holds
\* JMP $8010.
\*   "brk":     NOP ; BRK
\*   "illegal": the opcode byte arg, then JMP to itself
\*   "branch":  LDA #1 ; loop: BNE loop
\*   "push":    LDA #$55 ; loop: PHA ; JMP loop
\*   "pull":    loop: PLA ; JMP loop
\*   "jsr":     loop: JSR loop
\*   "rti":     RTI
\*   "plp":     loop: PLP ; JMP loop
\*   "bne":     BNE by the offset arg ; next: JMP next
\*   "untaken": LDA #0 ; BNE -2 ; next: JMP next
\*   "adc":     LDA #a ; SEC or CLC as c is 1 or 0 ; ADC #arg ; next: JMP next
\*   "sbc":     the same with SBC #arg
\*   "store":   LDA #$42 ; STA $2007 ; next: JMP next
\*   "abx":     INX or NOP as arg is 1 or 0 ; LDA $80FF,X ; STA $00FF,X ; LDA #7 ;
\*              next: JMP next
CpuProgram(img) ==
    CASE img.code = "brk" -> <<234, 0>>
      [] img.code = "illegal" -> <<img.arg, 76, 1, 128>>
      [] img.code = "branch" -> <<169, 1, 208, 254>>
      [] img.code = "push" -> <<169, 85, 72, 76, 2, 128>>
      [] img.code = "pull" -> <<104, 76, 0, 128>>
      [] img.code = "jsr" -> <<32, 0, 128>>
      [] img.code = "rti" -> <<64>>
      [] img.code = "plp" -> <<40, 76, 0, 128>>
      [] img.code = "bne" -> <<208, img.arg, 76, 2, 128>>
      [] img.code = "untaken" -> <<169, 0, 208, 254, 76, 4, 128>>
      [] img.code = "adc" ->
           <<169, img.a, IF img.c = 1 THEN 56 ELSE 24, 105, img.arg, 76, 5, 128>>
      [] img.code = "sbc" ->
           <<169, img.a, IF img.c = 1 THEN 56 ELSE 24, 233, img.arg, 76, 5, 128>>
      [] img.code = "store" -> <<169, 66, 141, 7, 32, 76, 5, 128>>
      [] img.code = "abx" ->
           <<IF img.arg = 1 THEN 232 ELSE 234, 189, 255, 128, 157, 255, 0, 169, 7,
             76, 9, 128>>

CpuProgramByte(img, off) ==
    CASE off < Len(CpuProgram(img)) -> CpuProgram(img)[off + 1]
      [] off = 16 -> 76
      [] off = 17 -> 16
      [] off = 18 -> 128
      [] off \in {PrgBank - 6, PrgBank - 2} -> 16
      [] off \in {PrgBank - 5, PrgBank - 3, PrgBank - 1} -> 128
      [] OTHER -> 0

\* byte off of the PRG bank of image img
ProgramByte(img, off) ==
    IF "code" \in DOMAIN img THEN CpuProgramByte(img, off)
    ELSE
    LET sledAt == IF img.pad THEN 7 ELSE 5
        dmaAt == sledAt + SledNops
        loopAt == dmaAt + 5
        loop == 32768 + loopAt
    IN  CASE off = 0 -> 169
          [] off = 1 -> img.ctrl
          [] off = 2 -> 141
          [] off = 3 -> 0
          [] off = 4 -> 32
          [] img.pad /\ off = 5 -> 165
          [] img.pad /\ off = 6 -> 0
          [] off >= sledAt /\ off < dmaAt -> 234
          [] off = dmaAt -> 169
          [] off = dmaAt + 1 -> img.page
          [] off = dmaAt + 2 -> 141
          [] off = dmaAt + 3 -> 20
          [] off = dmaAt + 4 -> 64
          [] off = loopAt -> 76
          [] off = loopAt + 1 -> loop % 256
          [] off = loopAt + 2 -> loop \div 256
          [] off = PrgBank - 6 -> loop % 256
          [] off = PrgBank - 5 -> loop \div 256
          [] off = PrgBank - 4 -> 0
          [] off = PrgBank - 3 -> 128
          [] OTHER -> 0

\* the pages the programs hand to the DMA port: the first page of the PRG bank
DmaPages == {128}

Images == [ctrl : CtrlValues, pad : BOOLEAN, page : DmaPages]

(***************************************************************************)
(* ROM files and their loaders.  A file is the record [head, len, image]:  *)
(* head its first bytes (at most 16, the part the loaders index), len its  *)
(* length, image the program whose PRG bank fills the file from byte 16    *)
(* on, over and over.  A slice data[a:b] is held by its start and length;  *)
(* Python cuts a slice at the end of the buffer and raises IndexError on   *)
(* an index outside a buffer.                                              *)
(***************************************************************************)
HeaderSize == 16
TrainerSize == 512
ChrPage == 8192

Magic == <<78, 69, 83, 26>>

Min(a, b) == IF a <= b THEN a ELSE b

\* the file of length n with the first four bytes magic and header bytes 4..7
FileOf(img, magic, n, h4, h5, h6, h7) ==
    [head |-> SubSeq(magic \o <<h4, h5, h6, h7, 0, 0, 0, 0, 0, 0, 0, 0>>,
                     1, Min(n, HeaderSize)),
     len |-> n, image |-> img]

\* the well-formed NROM file of a program: header, one PRG bank, no CHR
GoodFile(img) == FileOf(img, Magic, HeaderSize + PrgBank, 1, 0, 0, 0)

\* byte k of a file, k below its length
FileByte(data, k) ==
    IF k < HeaderSize THEN data.head[k + 1]
    ELSE ProgramByte(data.image, (k - HeaderSize) % PrgBank)

\* len(data[a:b]) for a <= b
SliceLen(data, a, b) == Min(data.len, b) - Min(data.len, a)

\* "header[0:4] != b'NES\x1A'"
BadMagic(data) == SubSeq(data.head, 1, Min(4, Len(data.head))) # Magic

\* the trainer bit of flags 6
HasTrainer(h6) == BitAnd(h6, 4) # 0

\* EMUNES5 NESRom.__init__(data): the exception raised ("" if none) and the
\* object built
E_NESRomInit(data) ==
    IF BadMagic(data) THEN [error |-> "ValueError", rom |-> Absent]
    ELSE IF Len(data.head) < 8 THEN [error |-> "IndexError", rom |-> Absent]
    ELSE LET h == [k \in 4..7 |-> data.head[k + 1]]
             prg_rom_size == h[4] * 16384
             chr_rom_size == h[5] * 8192
             prg_rom_start == IF HasTrainer(h[6]) THEN HeaderSize + TrainerSize
                              ELSE HeaderSize
             chr_rom_start == prg_rom_start + prg_rom_size
         IN  [error |-> "",
              rom |-> [data |-> data,
                       prg_rom_size |-> prg_rom_size, chr_rom_size |-> chr_rom_size,
                       mapper |-> BitOr(BitAnd(h[7], 240) \div 16, BitAnd(h[6], 240)),
                       mirror_mode |-> BitAnd(h[6], 1),
                       battery_backed |-> BitAnd(h[6], 2) # 0,
                       trainer_present |-> HasTrainer(h[6]),
                       prg_rom_start |-> prg_rom_start,
                       prg_len |-> SliceLen(data, prg_rom_start, chr_rom_start),
                       chr_rom_start |-> chr_rom_start,
                       chr_len |-> SliceLen(data, chr_rom_start,
                                            chr_rom_start + chr_rom_size)]]

\* MonikaNES NESRom.__init__(data)
M_NESRomInit(data) ==
    IF Len(data.head) < 8 THEN [error |-> "IndexError", rom |-> Absent]
    ELSE LET h == [k \in 4..7 |-> data.head[k + 1]]
             prg_rom_size == h[4] * 16384
             chr_rom_size == h[5] * 8192
             prg_rom_start == IF HasTrainer(h[6]) THEN HeaderSize + TrainerSize
                              ELSE HeaderSize
         IN  [error |-> "",
              rom |-> [data |-> data,
                       prg_rom_size |-> prg_rom_size, chr_rom_size |-> chr_rom_size,
                       mapper |-> BitOr((h[7] \div 16) * 16, h[6] \div 16),
                       mirror_mode |-> BitAnd(h[6], 1),
                       prg_rom_start |-> prg_rom_start,
                       prg_len |-> SliceLen(data, prg_rom_start,
                                            prg_rom_start + prg_rom_size),
                       chr_len |-> SliceLen(data, prg_rom_start + prg_rom_size,
                                            prg_rom_start + prg_rom_size + chr_rom_size)]]

\* CATNES NESRom.__init__(filepath) on a file that opens: it raises nothing;
\* valid tells whether it took the file, and the reads of f cut as slices do
C_NESRomInit(data) ==
    IF BadMagic(data) \/ Len(data.head) < 8
    THEN [data |-> data, valid |-> FALSE, mapper_id |-> 0,
          prg_rom_start |-> 0, prg_len |-> 0, chr_len |-> 0]
    ELSE LET h == [k \in 4..7 |-> data.head[k + 1]]
             prg_rom_start == IF HasTrainer(h[6]) THEN HeaderSize + TrainerSize
                              ELSE HeaderSize
             prg_rom_size == h[4] * 16384
         IN  [data |-> data, valid |-> TRUE,
              mapper_id |-> BitOr(h[6] \div 16, BitAnd(h[7], 240)),
              prg_rom_start |-> prg_rom_start,
              prg_len |-> SliceLen(data, prg_rom_start, prg_rom_start + prg_rom_size),
              chr_len |-> IF h[5] = 0 THEN ChrPage
                          ELSE SliceLen(data, prg_rom_start + prg_rom_size,
                                        prg_rom_start + prg_rom_size + h[5] * 8192)]

\* CATNES Cartridge.__init__(rom): for a mapper other than 0 it prints a warning
\* (warned) and goes on
C_CartridgeInit(r) ==
    [rom |-> r, warned |-> r.mapper_id # 0,
     prg_banks |-> r.prg_len \div 16384, chr_banks |-> r.chr_len \div 8192]

\* byte i of a NESRom's prg_rom, and whether indexing it there raises IndexError
PrgRomAt(r, i) == FileByte(r.data, r.prg_rom_start + i)

PrgRomRaises(r, i) == i >= r.prg_len

(***************************************************************************)
(* NESRom, Cartridge, Bus and CPU6502 of EMUNES5.  A machine m is the      *)
(* record [cpu, bus, ppu] of the three objects a CPU access can change; r  *)
(* is the NESRom.  Of the instruction table the model holds the opcodes    *)
(* the programs are made of: LDA #imm, LDA zp, STA abs, JMP abs, NOP.      *)
(***************************************************************************)
\* a read_prg that takes the index of a 32KB image whatever the size
MaskAs32K(r, addr) == BitAnd(addr, 32767)

\* NESRom.read_prg(addr): the index into prg_rom, where it takes one
E_PrgIndex(r, addr) ==
    IF r.prg_rom_size = 16384 THEN BitAnd(addr, 16383) ELSE BitAnd(addr, 32767)

\* NESRom.read_prg(addr): the byte returned, and whether the call raises instead
E_read_prg(r, addr) ==
    IF r.mapper = 0 THEN PrgRomAt(r, E_PrgIndex(r, addr)) ELSE 0

E_read_prg_raises(r, addr) ==
    r.mapper = 0 /\ PrgRomRaises(r, E_PrgIndex(r, addr))

\* CPU6502.__init__
E_CpuInit ==
    [a |-> 0, x |-> 0, y |-> 0, stkp |-> 253, pc |-> 0, status |-> 36,
     fetched |-> 0, addr_abs |-> 0, addr_rel |-> 0, opcode |-> 0, cycles |-> 0,
     dma_page |-> 0, dma_addr |-> 0, dma_data |-> 0,
     dma_transfer |-> FALSE, dma_dummy |-> TRUE]

\* Bus.__init__; system_clock_counter is read only through % 3 and % 2 and is
\* held modulo 6
E_BusInit ==
    [cpu_ram |-> ZeroBytes, system_clock_counter |-> 0,
     controller1_state |-> 0, controller1_shift |-> 0,
     chr_ram |-> ZeroBytes]
    \* chr_ram: the chr_ram of the rom of the cartridge inserted

\* EMUNES5 NESRom.__init__, "self.chr_ram = ..."
E_ChrInit(r) == [none |-> r.chr_rom_size # 0, chr_ram |-> ZeroBytes]

\* EMUNES5 NESRom.read_chr(addr): the byte returned and whether it raises
E_read_chr(r, st, addr) ==
    IF r.chr_rom_size > 0
    THEN LET i == BitAnd(addr, r.chr_rom_size - 1)
         IN  [raised |-> i >= r.chr_len,
              data |-> IF i >= r.chr_len THEN 0 ELSE FileByte(r.data, r.chr_rom_start + i)]
    ELSE [raised |-> FALSE, data |-> Peek(st.chr_ram, BitAnd(addr, 8191))]

\* EMUNES5 NESRom.write_chr(addr, data): the store after it
E_write_chr(r, st, addr, data) ==
    [store |-> IF ~st.none
               THEN [st EXCEPT !.chr_ram = Poke(@, BitAnd(addr, 8191), data)]
               ELSE st,
     raised |-> FALSE]

\* the chr_ram of the machine's cartridge, as read_chr and write_chr take it
E_ChrStore(m, r) == [none |-> r.chr_rom_size # 0, chr_ram |-> m.bus.chr_ram]

\* the index into ppu.vram of a nametable address
E_MirrorAddr(r, addr) ==
    IF r.mirror_mode = 0 THEN BitOr(BitAnd(addr, 2048) \div 2, BitAnd(addr, 1023))
    ELSE BitAnd(addr, 2047)

\* the index into ppu.palette_ram of a palette address
E_PaletteAddr(addr) ==
    LET palette_addr == BitAnd(addr, 31)
    IN  IF palette_addr \in {16, 20, 24, 28} THEN palette_addr - 16 ELSE palette_addr

\* Bus.ppu_write(addr, data)
E_BusPpuWrite(m, r, addr0, data) ==
    LET addr == BitAnd(addr0, 16383)
    IN  IF addr <= 8191
        THEN [m EXCEPT !.bus.chr_ram =
                           E_write_chr(r, E_ChrStore(m, r), addr, data).store.chr_ram]
        ELSE IF addr <= 16127
        THEN [m EXCEPT !.ppu.vram = Poke(@, E_MirrorAddr(r, addr), data)]
        ELSE [m EXCEPT !.ppu.palette_ram = Poke(@, E_PaletteAddr(addr), BitAnd(data, 63))]

\* Bus.ppu_read(addr): the byte returned
E_BusPpuRead(m, r, addr0) ==
    LET addr == BitAnd(addr0, 16383)
    IN  IF addr <= 8191 THEN E_read_chr(r, E_ChrStore(m, r), addr).data
        ELSE IF addr <= 16127 THEN Peek(m.ppu.vram, E_MirrorAddr(r, addr))
        ELSE BitAnd(Peek(m.ppu.palette_ram, E_PaletteAddr(addr)), 63)

\* "self.v += 32 if (self.ppuctrl & 0x04) else 1; self.v &= 0x3FFF"
E_VramStep(p) == BitAnd(p.v + (IF BitAnd(p.ppuctrl, 4) # 0 THEN 32 ELSE 1), 16383)

\* PPU2C02.cpu_write(0x2007, data)
E_PpuDataWrite(m, r, data) ==
    [E_BusPpuWrite(m, r, m.ppu.v, data) EXCEPT !.ppu.v = E_VramStep(m.ppu)]

\* PPU2C02.cpu_read(0x2007): the machine after the read and the byte returned
E_PpuDataRead(m, r) ==
    LET fill == E_BusPpuRead(m, r, m.ppu.v)
    IN  [m |-> [m EXCEPT !.ppu.ppudata_buffer = fill, !.ppu.v = E_VramStep(m.ppu)],
         data |-> IF m.ppu.v >= 16128 THEN fill ELSE m.ppu.ppudata_buffer]

\* Bus.cpu_read(addr): the machine after the read and the byte returned
E_BusCpuRead(m, r, addr0) ==
    LET addr == addr0 % 65536
    IN  IF addr >= 32768 THEN [m |-> m, data |-> E_read_prg(r, addr - 32768)]
        ELSE IF addr <= 8191
        THEN [m |-> m, data |-> Peek(m.bus.cpu_ram, BitAnd(addr, 2047))]
        ELSE IF addr <= 16383 /\ BitAnd(addr, 8199) = 8199
        THEN E_PpuDataRead(m, r)
        ELSE IF addr <= 16383
        THEN LET rd == E_PpuCpuRead(m.ppu, BitAnd(addr, 8199))
             IN  [m |-> [m EXCEPT !.ppu = rd.ppu], data |-> rd.data]
        ELSE IF addr = 16406
        THEN [m |-> [m EXCEPT !.bus.controller1_shift = @ \div 2],
              data |-> 64 + (m.bus.controller1_shift % 2)]
        ELSE [m |-> m, data |-> 0]

\* Bus.cpu_write(addr, data)
E_BusCpuWrite(m, r, addr0, data) ==
    LET addr == addr0 % 65536
    IN  IF addr >= 32768 THEN m
        ELSE IF addr <= 8191
        THEN [m EXCEPT !.bus.cpu_ram = Poke(@, BitAnd(addr, 2047), data)]
        ELSE IF addr <= 16383 /\ BitAnd(addr, 8199) = 8199
        THEN E_PpuDataWrite(m, r, data)
        ELSE IF addr <= 16383
        THEN [m EXCEPT !.ppu = E_PpuCpuWrite(@, BitAnd(addr, 8199), data)]
        ELSE IF addr = 16404
        THEN [m EXCEPT !.cpu.dma_page = data, !.cpu.dma_addr = 0,
                       !.cpu.dma_transfer = TRUE, !.cpu.dma_dummy = TRUE]
        ELSE IF addr = 16406 /\ data % 2 = 1
        THEN [m EXCEPT !.bus.controller1_shift = m.bus.controller1_state]
        ELSE m

\* set_flag(FLAG_Z, v == 0); set_flag(FLAG_N, v & 0x80)
SetZN(status, v) ==
    LET z == IF v = 0 THEN BitOr(status, 2) ELSE AndNot(status, 2)
    IN  IF BitAnd(v, 128) # 0 THEN BitOr(z, 128) ELSE AndNot(z, 128)

\* CPU6502.reset()
E_CpuReset(m, r) ==
    LET lo == E_BusCpuRead(m, r, 65532)
        hi == E_BusCpuRead(lo.m, r, 65533)
    IN  [hi.m EXCEPT !.cpu.a = 0, !.cpu.x = 0, !.cpu.y = 0, !.cpu.stkp = 253,
                     !.cpu.status = 36, !.cpu.pc = BitOr(hi.data * 256, lo.data),
                     !.cpu.addr_rel = 0, !.cpu.addr_abs = 0, !.cpu.fetched = 0,
                     !.cpu.cycles = 8]

\* CPU6502.push(data)
E_push(m, r, data) ==
    LET m1 == E_BusCpuWrite(m, r, 256 + m.cpu.stkp, data)
    IN  [m1 EXCEPT !.cpu.stkp = (@ - 1) % 256]

\* CPU6502.non_maskable_interrupt()
E_non_maskable_interrupt(m, r) ==
    LET m1 == E_push(m, r, BitAnd(m.cpu.pc \div 256, 255))
        m2 == E_push(m1, r, BitAnd(m.cpu.pc, 255))
        m3 == E_push(m2, r, AndNot(m.cpu.status, 16))
        lo == E_BusCpuRead(m3, r, 65530)
        hi == E_BusCpuRead(lo.m, r, 65531)
    IN  [hi.m EXCEPT !.cpu.status = BitOr(@, 4),
                     !.cpu.pc = BitOr(lo.data, hi.data * 256),
                     !.cpu.cycles = 8]

\* addressing modes and operations: the machine after, and the extra cycle asked
E_IMP(m, r) == [m |-> m, extra |-> 0]

E_IMM(m, r) ==
    [m |-> [m EXCEPT !.cpu.addr_abs = m.cpu.pc, !.cpu.pc = @ + 1], extra |-> 0]

E_ZP0(m, r) ==
    LET b == E_BusCpuRead(m, r, m.cpu.pc)
    IN  [m |-> [b.m EXCEPT !.cpu.addr_abs = b.data, !.cpu.pc = @ + 1], extra |-> 0]

E_ABS(m, r) ==
    LET lo == E_BusCpuRead(m, r, m.cpu.pc)
        hi == E_BusCpuRead(lo.m, r, m.cpu.pc + 1)
    IN  [m |-> [hi.m EXCEPT !.cpu.addr_abs = BitOr(hi.data * 256, lo.data),
                            !.cpu.pc = @ + 2],
         extra |-> 0]

\* fetch() under an addressing mode other than IMP and ACC
E_fetch(m, r) ==
    LET b == E_BusCpuRead(m, r, m.cpu.addr_abs)
    IN  [b.m EXCEPT !.cpu.fetched = b.data]

E_LDA(m, r) ==
    LET m1 == E_fetch(m, r)
    IN  [m |-> [m1 EXCEPT !.cpu.a = m1.cpu.fetched,
                          !.cpu.status = SetZN(@, m1.cpu.fetched)],
         extra |-> 1]

E_STA(m, r) == [m |-> E_BusCpuWrite(m, r, m.cpu.addr_abs, m.cpu.a), extra |-> 0]

E_JMP(m, r) == [m |-> [m EXCEPT !.cpu.pc = m.cpu.addr_abs], extra |-> 0]

E_NOP(m, r) == [m |-> m, extra |-> 0]

\* CPU6502.pop(): the machine after and the byte pulled
E_pop(m, r) ==
    E_BusCpuRead([m EXCEPT !.cpu.stkp = (@ + 1) % 256], r, 256 + ((m.cpu.stkp + 1) % 256))

E_REL(m, r) ==
    LET b == E_BusCpuRead(m, r, m.cpu.pc)
    IN  [m |-> [b.m EXCEPT !.cpu.addr_rel = IF b.data >= 128 THEN BitOr(b.data, 65280)
                                            ELSE b.data,
                           !.cpu.pc = @ + 1],
         extra |-> 0]

\* _branch(condition)
E_branch(m, condition) ==
    LET c == m.cpu
        addr_abs == c.pc + c.addr_rel
        crossed == (addr_abs \div 256) % 256 # (c.pc \div 256) % 256
    IN  IF condition
        THEN [m EXCEPT !.cpu.cycles = @ + 1 + (IF crossed THEN 1 ELSE 0),
                       !.cpu.addr_abs = addr_abs, !.cpu.pc = addr_abs]
        ELSE m

E_BNE(m, r) == [m |-> E_branch(m, ~HasBit(m.cpu.status, 2)), extra |-> 0]

\* BRK, after "self.pc += 1": pc is the value pushed
E_BRKPush(m, r, pc) ==
    E_push(E_push(E_push(m, r, BitAnd(pc \div 256, 255)), r, BitAnd(pc, 255)),
           r, BitOr(BitOr(m.cpu.status, 16), 32))

E_BRKVector(m, r, lo) ==
    [m |-> [lo.m EXCEPT !.cpu.status = BitOr(@, 4),
                        !.cpu.pc = BitOr(lo.data, E_BusCpuRead(lo.m, r, 65535).data * 256)],
     extra |-> 0]

E_BRK(m, r) ==
    E_BRKVector(m, r, E_BusCpuRead(E_BRKPush(m, r, m.cpu.pc + 1), r, 65534))

E_PHA(m, r) == [m |-> E_push(m, r, m.cpu.a), extra |-> 0]

E_PLA(m, r) ==
    LET b == E_pop(m, r)
    IN  [m |-> [b.m EXCEPT !.cpu.a = b.data, !.cpu.status = SetZN(@, b.data)],
         extra |-> 0]

E_JSR(m, r) ==
    [m |-> [E_push(E_push(m, r, BitAnd((m.cpu.pc - 1) \div 256, 255)),
                   r, BitAnd(m.cpu.pc - 1, 255))
               EXCEPT !.cpu.pc = m.cpu.addr_abs],
     extra |-> 0]

\* set_flag(flag, value)
SetFlag(status, flag, value) == IF value THEN BitOr(status, flag) ELSE AndNot(status, flag)

\* the status after ADC's and SBC's four set_flag calls: a the accumulator,
\* value the byte added, temp the 9-bit sum, v the overflow it computed
AdderFlags(status, temp, v) ==
    SetFlag(SetFlag(SetFlag(SetFlag(status, 1, temp > 255),
                            2, BitAnd(temp, 255) = 0),
                    64, v),
            128, BitAnd(temp, 128) # 0)

\* "(~(self.a ^ self.fetched) & (self.a ^ temp) & 0x80) != 0"
E_AdcOverflow(a, fetched, temp) ==
    BitAnd(BitAnd(BitXor(BitXor(a, fetched), 255), BitXor(a, temp)), 128) # 0

\* "((temp ^ self.a) & (temp ^ value) & 0x80) != 0"
E_SbcOverflow(a, value, temp) ==
    BitAnd(BitAnd(BitXor(temp, a), BitXor(temp, value)), 128) # 0

E_ADC(m, r) ==
    LET m1 == E_fetch(m, r)
        c == m1.cpu
        temp == c.a + c.fetched + (IF HasBit(c.status, 1) THEN 1 ELSE 0)
    IN  [m |-> [m1 EXCEPT !.cpu.status =
                              AdderFlags(@, temp, E_AdcOverflow(c.a, c.fetched, temp)),
                          !.cpu.a = BitAnd(temp, 255)],
         extra |-> 1]

E_SBC(m, r) ==
    LET m1 == E_fetch(m, r)
        c == m1.cpu
        value == BitXor(c.fetched, 255)
        temp == c.a + value + (IF HasBit(c.status, 1) THEN 1 ELSE 0)
    IN  [m |-> [m1 EXCEPT !.cpu.status =
                              AdderFlags(@, temp, E_SbcOverflow(c.a, value, temp)),
                          !.cpu.a = BitAnd(temp, 255)],
         extra |-> 1]

E_SEC(m, r) == [m |-> [m EXCEPT !.cpu.status = BitOr(@, 1)], extra |-> 0]

E_CLC(m, r) == [m |-> [m EXCEPT !.cpu.status = AndNot(@, 1)], extra |-> 0]

\* PLP: the status pulled, with U set and B cleared
E_PLP(m, r) ==
    LET b == E_pop(m, r)
    IN  [m |-> [b.m EXCEPT !.cpu.status = AndNot(BitOr(b.data, 32), 16)], extra |-> 0]

\* RTI: PLP's status, then pc = pop_word()
E_RTI(m, r) ==
    LET b == E_pop(m, r)
        lo == E_pop(b.m, r)
        hi == E_pop(lo.m, r)
    IN  [m |-> [hi.m EXCEPT !.cpu.status = AndNot(BitOr(b.data, 32), 16),
                            !.cpu.pc = BitOr(hi.data * 256, lo.data)],
         extra |-> 0]

\* clock(), from "addr_mode, operation, cycles = self.lookup[self.opcode]" on
E_Instr(m, r, Mode(_, _), Op(_, _), cycles) ==
    LET a1 == Mode([m EXCEPT !.cpu.cycles = cycles], r)
        a2 == Op(a1.m, r)
    IN  [a2.m EXCEPT !.cpu.cycles = @ + BitAnd(a1.extra, a2.extra)]

\* CPU6502.ABX: addr_abs is not masked to 16 bits
E_ABX(m, r) ==
    LET lo == E_BusCpuRead(m, r, m.cpu.pc)
        hi == E_BusCpuRead(lo.m, r, m.cpu.pc + 1)
        addr == BitOr(hi.data * 256, lo.data) + m.cpu.x
    IN  [m |-> [hi.m EXCEPT !.cpu.addr_abs = addr, !.cpu.pc = @ + 2],
         extra |-> IF BitAnd(addr, 65280) # hi.data * 256 THEN 1 ELSE 0]

E_INX(m, r) ==
    LET x == BitAnd(m.cpu.x + 1, 255)
    IN  [m |-> [m EXCEPT !.cpu.x = x, !.cpu.status = SetZN(@, x)], extra |-> 0]

\* the entries of self.lookup for the programs' opcodes; the other opcodes the
\* programs fetch are 0xEA and those _init_lookup_table fills in as
\* (IMP, NOP, 2)
E_Execute(m, r) ==
    CASE m.cpu.opcode = 169 -> E_Instr(m, r, E_IMM, E_LDA, 2)
      [] m.cpu.opcode = 0 -> E_Instr(m, r, E_IMP, E_BRK, 7)
      [] m.cpu.opcode = 32 -> E_Instr(m, r, E_ABS, E_JSR, 6)
      [] m.cpu.opcode = 72 -> E_Instr(m, r, E_IMP, E_PHA, 3)
      [] m.cpu.opcode = 104 -> E_Instr(m, r, E_IMP, E_PLA, 4)
      [] m.cpu.opcode = 208 -> E_Instr(m, r, E_REL, E_BNE, 2)
      [] m.cpu.opcode = 24 -> E_Instr(m, r, E_IMP, E_CLC, 2)
      [] m.cpu.opcode = 40 -> E_Instr(m, r, E_IMP, E_PLP, 4)
      [] m.cpu.opcode = 56 -> E_Instr(m, r, E_IMP, E_SEC, 2)
      [] m.cpu.opcode = 64 -> E_Instr(m, r, E_IMP, E_RTI, 6)
      [] m.cpu.opcode = 105 -> E_Instr(m, r, E_IMM, E_ADC, 2)
      [] m.cpu.opcode = 233 -> E_Instr(m, r, E_IMM, E_SBC, 2)
      [] m.cpu.opcode = 165 -> E_Instr(m, r, E_ZP0, E_LDA, 3)
      [] m.cpu.opcode = 141 -> E_Instr(m, r, E_ABS, E_STA, 4)
      [] m.cpu.opcode = 157 -> E_Instr(m, r, E_ABX, E_STA, 5)
      [] m.cpu.opcode = 189 -> E_Instr(m, r, E_ABX, E_LDA, 4)
      [] m.cpu.opcode = 232 -> E_Instr(m, r, E_IMP, E_INX, 2)
      [] m.cpu.opcode = 76 -> E_Instr(m, r, E_ABS, E_JMP, 3)
      [] OTHER -> E_Instr(m, r, E_IMP, E_NOP, 2)

\* CPU6502.clock()
E_CpuClock(m, r) ==
    IF m.cpu.cycles = 0
    THEN LET op == E_BusCpuRead(m, r, m.cpu.pc)
             m1 == [op.m EXCEPT !.cpu.opcode = op.data,
                                !.cpu.pc = BitAnd(m.cpu.pc + 1, 65535)]
             m2 == E_Execute(m1, r)
         IN  [m2 EXCEPT !.cpu.cycles = @ - 1]
    ELSE [m EXCEPT !.cpu.cycles = @ - 1]

\* a Bus.clock() that gives the CPU its turn on every other call
EveryOtherCall(n) == n % 2 = 0

\* "if self.system_clock_counter % 3 == 0": the call is the CPU's turn
E_CpuTurn(n) == n % 3 = 0

\* Bus.clock(): the machine after the call, and what the call did: ran ("cpu":
\* cpu.clock(), "dma": a DMA step, "none"), raised (it ended in the IndexError of
\* ppu.oam[dma_addr], before the counter was incremented), and the PPU's nmi,
\* dot and frame.  E_BusClockCpu is the part after "self.ppu.clock()", run on the
\* machine m2 that call left.
E_BusClockCpu(m2, r, pc) ==
    LET n == m2.bus.system_clock_counter
        c == m2.cpu
        turn == E_CpuTurn(n)
        dma == turn /\ c.dma_transfer
        raised == dma /\ ~c.dma_dummy /\ n % 2 # 0 /\ c.dma_addr >= OamSize
        Counted(m3) == IF raised THEN m3
                       ELSE [m3 EXCEPT !.bus.system_clock_counter = (n + 1) % 6]
        DmaRead(b) == [b.m EXCEPT !.cpu.dma_data = b.data]
    IN  [m |-> Counted(
               IF ~turn THEN m2
               ELSE IF ~c.dma_transfer THEN E_CpuClock(m2, r)
               ELSE IF c.dma_dummy
               THEN (IF n % 2 = 1 THEN [m2 EXCEPT !.cpu.dma_dummy = FALSE] ELSE m2)
               ELSE IF n % 2 = 0
               THEN DmaRead(E_BusCpuRead(m2, r, BitOr(c.dma_page * 256, c.dma_addr)))
               ELSE IF raised THEN m2
               ELSE LET done == c.dma_addr + 1 = 0
                    IN  [m2 EXCEPT !.ppu.oam = Poke(@, c.dma_addr, c.dma_data),
                                   !.cpu.dma_addr = @ + 1,
                                   !.cpu.dma_transfer = IF done THEN FALSE ELSE @,
                                   !.cpu.dma_dummy = IF done THEN TRUE ELSE @]),
         ran |-> IF ~turn THEN "none" ELSE IF dma THEN "dma" ELSE "cpu",
         raised |-> raised, nmi |-> pc.nmi, dot |-> pc.dot, frame |-> pc.frame]

\* Bus.clock() from the return of its "self.ppu.clock()", which reported pc: the
\* PPU's clock has run the CPU's NMI entry if it called it
E_BusClockPpu(m, r, pc) ==
    E_BusClockCpu(IF pc.nmi THEN E_non_maskable_interrupt([m EXCEPT !.ppu = pc.ppu], r)
                  ELSE [m EXCEPT !.ppu = pc.ppu],
                  r, pc)

E_BusClock(m, r) == E_BusClockPpu(m, r, E_PpuClock(m.ppu))

\* the machine the host leaves after load_rom(): the objects as constructed, the
\* cartridge inserted, then reset(): cpu.reset() and ppu.__init__()
E_MachineInit(r) ==
    LET m == E_CpuReset([cpu |-> E_CpuInit, bus |-> E_BusInit, ppu |-> E_PpuInit], r)
    IN  [m EXCEPT !.ppu = E_PpuInit]

(***************************************************************************)
(* NESRom, Cartridge, Bus and CPU6502 of MonikaNES, with the same opcodes. *)
(* Addresses, pc and stkp are not masked to their widths there.            *)
(***************************************************************************)
\* NESRom.read_prg(addr): the byte returned, and whether the call raises instead
M_read_prg(r, addr) ==
    IF r.prg_rom_size = 16384 THEN PrgRomAt(r, addr % 16384)
    ELSE IF r.prg_rom_size = 32768 THEN PrgRomAt(r, addr % 32768)
    ELSE 0

M_read_prg_raises(r, addr) ==
    \/ r.prg_rom_size = 16384 /\ PrgRomRaises(r, addr % 16384)
    \/ r.prg_rom_size = 32768 /\ PrgRomRaises(r, addr % 32768)

\* Cartridge.cpu_read(addr)
M_CartCpuRead(r, addr) ==
    IF addr >= 24576 /\ addr <= 32767 THEN 0
    ELSE IF addr >= 32768 /\ addr <= 65535 THEN M_read_prg(r, addr - 32768)
    ELSE 0

\* CPU6502.__init__; illegal_opcodes, a dict of counts, is held as its non-zero
\* entries
M_CpuInit ==
    [a |-> 0, x |-> 0, y |-> 0, stkp |-> 253, pc |-> 0, status |-> 0,
     fetched |-> 0, addr_abs |-> 0, addr_rel |-> 0, opcode |-> 0, cycles |-> 0,
     dma_page |-> 0, dma_addr |-> 0, dma_data |-> 0,
     dma_transfer |-> FALSE, dma_dummy |-> TRUE, illegal_opcodes |-> ZeroBytes]

\* Bus.__init__; system_clock_counter held modulo 6 as in EMUNES5
M_BusInit ==
    [cpu_ram |-> ZeroBytes, system_clock_counter |-> 0, chr_ram |-> ZeroBytes]
    \* chr_ram: the chr_ram of the rom of the cartridge inserted

\* NESRom.read_chr(addr), addr in 0..0x1FFF, for a file that holds the CHR
\* banks its header declares
M_read_chr(m, r, addr) ==
    IF r.chr_rom_size > 0 THEN FileByte(r.data, r.prg_rom_start + r.prg_rom_size + addr)
    ELSE Peek(m.bus.chr_ram, addr)

\* the index into ppu.palette_ram of a palette address
M_PaletteAddr(addr) ==
    LET actual_addr == BitAnd(addr, 31)
    IN  IF actual_addr \in {4, 8, 12, 16, 20, 24, 28} THEN 0 ELSE actual_addr

\* Bus.ppu_write(addr, data): Cartridge.ppu_write returns None, so the tests of
\* the nametable and palette ranges follow it
M_BusPpuWrite(m, r, addr, data) ==
    IF addr >= 0 /\ addr <= 8191
    THEN IF r.chr_rom_size = 0 THEN [m EXCEPT !.bus.chr_ram = Poke(@, addr, data)] ELSE m
    ELSE IF addr >= 8192 /\ addr <= 16127
    THEN [m EXCEPT !.ppu.vram = Poke(@, BitAnd(addr, 4095), data)]
    ELSE IF addr >= 16128 /\ addr <= 16383
    THEN [m EXCEPT !.ppu.palette_ram = Poke(@, M_PaletteAddr(addr), BitAnd(data, 63))]
    ELSE m

\* Bus.ppu_read(addr): the byte returned
M_BusPpuRead(m, r, addr) ==
    IF addr >= 0 /\ addr <= 8191 THEN M_read_chr(m, r, addr)
    ELSE IF addr >= 8192 /\ addr <= 16127 THEN Peek(m.ppu.vram, BitAnd(addr, 4095))
    ELSE IF addr >= 16128 /\ addr <= 16383
    THEN BitAnd(Peek(m.ppu.palette_ram, M_PaletteAddr(addr)), 63)
    ELSE 0

\* the vram_addr after a PPUDATA access
M_VramStep(p) ==
    BitAnd(p.vram_addr + (IF HasBit(p.PPUCTRL, 4) THEN 32 ELSE 1), 16383)

\* PPU2C02.cpu_write(0x2007, data)
M_PpuDataWrite(m, r, data) ==
    [M_BusPpuWrite(m, r, m.ppu.vram_addr, data) EXCEPT !.ppu.vram_addr = M_VramStep(m.ppu)]

\* PPU2C02.cpu_read(0x2007): the machine after the read and the byte returned
M_PpuDataRead(m, r) ==
    LET v == m.ppu.vram_addr
    IN  IF BitAnd(v, 16128) = 16128
        THEN [m |-> [m EXCEPT !.ppu.buffer_data =
                                  IF v >= 12288 THEN M_BusPpuRead(m, r, v - 4096) ELSE 0,
                              !.ppu.vram_addr = M_VramStep(m.ppu)],
              data |-> M_BusPpuRead(m, r, v)]
        ELSE [m |-> [m EXCEPT !.ppu.buffer_data = M_BusPpuRead(m, r, v),
                              !.ppu.vram_addr = M_VramStep(m.ppu)],
              data |-> m.ppu.buffer_data]

\* Bus.cpu_read(addr)
M_BusCpuRead(m, r, addr) ==
    IF addr >= 0 /\ addr <= 8191
    THEN [m |-> m, data |-> Peek(m.bus.cpu_ram, BitAnd(addr, 2047))]
    ELSE IF addr >= 8192 /\ addr <= 16383 /\ BitAnd(addr, 8199) = 8199
    THEN M_PpuDataRead(m, r)
    ELSE IF addr >= 8192 /\ addr <= 16383
    THEN LET rd == M_PpuCpuRead(m.ppu, BitAnd(addr, 8199))
         IN  [m |-> [m EXCEPT !.ppu = rd.ppu], data |-> rd.data]
    ELSE [m |-> m, data |-> M_CartCpuRead(r, addr)]

\* Bus.cpu_write(addr, data): the cartridge's cpu_write returns None, so the
\* write goes on to RAM and the PPU; no other address is handled
M_BusCpuWrite(m, r, addr, data) ==
    IF addr >= 0 /\ addr <= 8191
    THEN [m EXCEPT !.bus.cpu_ram = Poke(@, BitAnd(addr, 2047), data)]
    ELSE IF addr >= 8192 /\ addr <= 16383 /\ BitAnd(addr, 8199) = 8199
    THEN M_PpuDataWrite(m, r, data)
    ELSE IF addr >= 8192 /\ addr <= 16383
    THEN [m EXCEPT !.ppu = M_PpuCpuWrite(@, BitAnd(addr, 8199), data)]
    ELSE m

\* CPU6502.reset()
M_CpuReset(m, r) ==
    LET lo == M_BusCpuRead(m, r, 65532)
        hi == M_BusCpuRead(lo.m, r, 65533)
    IN  [hi.m EXCEPT !.cpu.pc = BitOr(hi.data * 256, lo.data),
                     !.cpu.a = 0, !.cpu.x = 0, !.cpu.y = 0, !.cpu.stkp = 253,
                     !.cpu.status = 36,
                     !.cpu.addr_rel = 0, !.cpu.addr_abs = 0, !.cpu.fetched = 0,
                     !.cpu.cycles = 8, !.cpu.illegal_opcodes = ZeroBytes]

\* CPU6502.non_maskable_interrupt()
M_non_maskable_interrupt(m, r) ==
    LET sp == m.cpu.stkp
        st == BitOr(BitOr(AndNot(m.cpu.status, 16), 32), 4)
        m1 == M_BusCpuWrite(m, r, 256 + sp, BitAnd(m.cpu.pc \div 256, 255))
        m2 == M_BusCpuWrite(m1, r, 256 + sp - 1, BitAnd(m.cpu.pc, 255))
        m3 == M_BusCpuWrite(m2, r, 256 + sp - 2, st)
        lo == M_BusCpuRead(m3, r, 65530)
        hi == M_BusCpuRead(lo.m, r, 65531)
    IN  [hi.m EXCEPT !.cpu.stkp = sp - 3, !.cpu.status = st,
                     !.cpu.addr_abs = 65530,
                     !.cpu.pc = BitOr(hi.data * 256, lo.data),
                     !.cpu.cycles = 8]

M_IMP(m, r) == [m |-> [m EXCEPT !.cpu.fetched = m.cpu.a], extra |-> 0]

M_IMM(m, r) ==
    [m |-> [m EXCEPT !.cpu.addr_abs = m.cpu.pc, !.cpu.pc = @ + 1], extra |-> 0]

M_ZP0(m, r) ==
    LET b == M_BusCpuRead(m, r, m.cpu.pc)
    IN  [m |-> [b.m EXCEPT !.cpu.addr_abs = BitAnd(b.data, 255), !.cpu.pc = @ + 1],
         extra |-> 0]

M_ABS(m, r) ==
    LET lo == M_BusCpuRead(m, r, m.cpu.pc)
        hi == M_BusCpuRead(lo.m, r, m.cpu.pc + 1)
    IN  [m |-> [hi.m EXCEPT !.cpu.addr_abs = BitOr(hi.data * 256, lo.data),
                            !.cpu.pc = @ + 2],
         extra |-> 0]

\* the opcodes whose entry of lookup_dict has the addressing mode IMP
M_ImpliedOpcodes == {0, 234}

\* fetch(): it looks the mode up under self.opcode, which clock() never assigns
\* (clock() keeps the opcode in a local), so under the opcode of __init__
M_fetch(m, r) ==
    IF m.cpu.opcode \in M_ImpliedOpcodes THEN m
    ELSE LET b == M_BusCpuRead(m, r, m.cpu.addr_abs)
         IN  [b.m EXCEPT !.cpu.fetched = b.data]

M_LDA(m, r) ==
    LET m1 == M_fetch(m, r)
    IN  [m |-> [m1 EXCEPT !.cpu.a = m1.cpu.fetched,
                          !.cpu.status = SetZN(@, m1.cpu.fetched)],
         extra |-> 1]

M_STA(m, r) == [m |-> M_BusCpuWrite(m, r, m.cpu.addr_abs, m.cpu.a), extra |-> 0]

M_JMP(m, r) == [m |-> [m EXCEPT !.cpu.pc = m.cpu.addr_abs], extra |-> 0]

M_NOP(m, r) == [m |-> m, extra |-> 0]

M_REL(m, r) ==
    LET b == M_BusCpuRead(m, r, m.cpu.pc)
    IN  [m |-> [b.m EXCEPT !.cpu.addr_rel = IF b.data >= 128 THEN BitOr(b.data, 65280)
                                            ELSE b.data,
                           !.cpu.pc = @ + 1],
         extra |-> 0]

\* branch(condition); clock() assigns cycles after the operation returns, so
\* the cycles added here are lost
M_branch(m, condition) ==
    IF condition
    THEN [m EXCEPT !.cpu.addr_abs = m.cpu.pc + m.cpu.addr_rel,
                   !.cpu.pc = m.cpu.pc + m.cpu.addr_rel]
    ELSE m

M_BNE(m, r) == [m |-> M_branch(m, ~HasBit(m.cpu.status, 2)), extra |-> 0]

\* BRK: the three writes, with sp and pc as BRK found them and st the status
\* after set_flag(FLAG_I, True) and set_flag(FLAG_B, True)
M_BRKPush(m, r, sp, pc, st) ==
    M_BusCpuWrite(
        M_BusCpuWrite(
            M_BusCpuWrite(m, r, 256 + sp, BitAnd(pc \div 256, 255)),
            r, 256 + sp - 1, BitAnd(pc, 255)),
        r, 256 + sp - 2, st)

M_BRKVector(m, r, lo) ==
    [m |-> [lo.m EXCEPT !.cpu.stkp = @ - 3,
                        !.cpu.status = AndNot(BitOr(@, 4), 16),
                        !.cpu.addr_abs = 65534,
                        !.cpu.pc = BitOr(M_BusCpuRead(lo.m, r, 65535).data * 256, lo.data)],
     extra |-> 0]

M_BRK(m, r) ==
    M_BRKVector(m, r,
        M_BusCpuRead(M_BRKPush(m, r, m.cpu.stkp, m.cpu.pc,
                               BitOr(BitOr(m.cpu.status, 4), 16)),
                     r, 65534))

M_PHA(m, r) ==
    [m |-> [M_BusCpuWrite(m, r, 256 + m.cpu.stkp, m.cpu.a) EXCEPT !.cpu.stkp = @ - 1],
     extra |-> 0]

M_PLA(m, r) ==
    LET b == M_BusCpuRead([m EXCEPT !.cpu.stkp = @ + 1], r, 256 + m.cpu.stkp + 1)
    IN  [m |-> [b.m EXCEPT !.cpu.a = b.data, !.cpu.status = SetZN(@, b.data)],
         extra |-> 0]

M_JSR(m, r) ==
    [m |-> [M_BusCpuWrite(
                M_BusCpuWrite(m, r, 256 + m.cpu.stkp, BitAnd((m.cpu.pc - 1) \div 256, 255)),
                r, 256 + m.cpu.stkp - 1, BitAnd(m.cpu.pc - 1, 255))
               EXCEPT !.cpu.stkp = @ - 2, !.cpu.pc = m.cpu.addr_abs],
     extra |-> 0]

\* "((self.a ^ temp) & (self.fetched ^ temp) & 0x80) != 0", also SBC's with
\* value for fetched
M_Overflow(a, value, temp) ==
    BitAnd(BitAnd(BitXor(a, temp), BitXor(value, temp)), 128) # 0

M_ADC(m, r) ==
    LET m1 == M_fetch(m, r)
        c == m1.cpu
        temp == c.a + c.fetched + (IF HasBit(c.status, 1) THEN 1 ELSE 0)
    IN  [m |-> [m1 EXCEPT !.cpu.status =
                              AdderFlags(@, temp, M_Overflow(c.a, c.fetched, temp)),
                          !.cpu.a = BitAnd(temp, 255)],
         extra |-> 1]

M_SBC(m, r) ==
    LET m1 == M_fetch(m, r)
        c == m1.cpu
        value == BitXor(c.fetched, 255)
        temp == c.a + value + (IF HasBit(c.status, 1) THEN 1 ELSE 0)
    IN  [m |-> [m1 EXCEPT !.cpu.status =
                              AdderFlags(@, temp, M_Overflow(c.a, value, temp)),
                          !.cpu.a = BitAnd(temp, 255)],
         extra |-> 1]

M_SEC(m, r) == [m |-> [m EXCEPT !.cpu.status = BitOr(@, 1)], extra |-> 0]

M_CLC(m, r) == [m |-> [m EXCEPT !.cpu.status = AndNot(@, 1)], extra |-> 0]

M_PLP(m, r) ==
    LET b == M_BusCpuRead([m EXCEPT !.cpu.stkp = @ + 1], r, 256 + m.cpu.stkp + 1)
    IN  [m |-> [b.m EXCEPT !.cpu.status = AndNot(BitOr(b.data, 32), 16)], extra |-> 0]

\* RTI: the status pulled with B and U cleared, then pc from the next two bytes
M_RTI(m, r) ==
    LET sp == m.cpu.stkp
        b == M_BusCpuRead([m EXCEPT !.cpu.stkp = sp + 3], r, 256 + sp + 1)
        lo == M_BusCpuRead(b.m, r, 256 + sp + 2)
        hi == M_BusCpuRead(lo.m, r, 256 + sp + 3)
    IN  [m |-> [hi.m EXCEPT !.cpu.status = AndNot(AndNot(b.data, 16), 32),
                            !.cpu.pc = BitOr(hi.data * 256, lo.data)],
         extra |-> 0]

\* clock(), from "addr_mode_func, op_func, cycles = self.lookup_dict[opcode]" on
M_Instr(m, r, Mode(_, _), Op(_, _), cycles) ==
    LET a1 == Mode(m, r)
        a2 == Op(a1.m, r)
    IN  [a2.m EXCEPT !.cpu.cycles = cycles + a1.extra + a2.extra]

\* CPU6502.ABX of MonikaNES
M_ABX(m, r) ==
    LET lo == M_BusCpuRead(m, r, m.cpu.pc)
        hi == M_BusCpuRead(lo.m, r, m.cpu.pc + 1)
        addr == BitOr(hi.data * 256, lo.data) + m.cpu.x
    IN  [m |-> [hi.m EXCEPT !.cpu.addr_abs = addr, !.cpu.pc = @ + 2],
         extra |-> IF BitAnd(addr, 65280) # hi.data * 256 THEN 1 ELSE 0]

M_INX(m, r) ==
    LET x == BitAnd(m.cpu.x + 1, 255)
    IN  [m |-> [m EXCEPT !.cpu.x = x, !.cpu.status = SetZN(@, x)], extra |-> 0]

\* CPU6502.clock(); the other opcodes the programs fetch are outside
\* lookup_dict
M_CpuClock(m, r) ==
    IF m.cpu.cycles = 0
    THEN LET op == M_BusCpuRead(m, r, m.cpu.pc)
             opcode == op.data
             m1 == [op.m EXCEPT !.cpu.pc = m.cpu.pc + 1,
                                !.cpu.status = BitOr(@, 32)]
             m2 == CASE opcode = 234 -> M_Instr(m1, r, M_IMP, M_NOP, 2)
                     [] opcode = 0 -> M_Instr(m1, r, M_IMP, M_BRK, 7)
                     [] opcode = 32 -> M_Instr(m1, r, M_ABS, M_JSR, 6)
                     [] opcode = 72 -> M_Instr(m1, r, M_IMP, M_PHA, 3)
                     [] opcode = 104 -> M_Instr(m1, r, M_IMP, M_PLA, 4)
                     [] opcode = 208 -> M_Instr(m1, r, M_REL, M_BNE, 2)
                     [] opcode = 24 -> M_Instr(m1, r, M_IMP, M_CLC, 2)
                     [] opcode = 40 -> M_Instr(m1, r, M_IMP, M_PLP, 4)
                     [] opcode = 56 -> M_Instr(m1, r, M_IMP, M_SEC, 2)
                     [] opcode = 64 -> M_Instr(m1, r, M_IMP, M_RTI, 6)
                     [] opcode = 105 -> M_Instr(m1, r, M_IMM, M_ADC, 2)
                     [] opcode = 233 -> M_Instr(m1, r, M_IMM, M_SBC, 2)
                     [] opcode = 169 -> M_Instr(m1, r, M_IMM, M_LDA, 2)
                     [] opcode = 165 -> M_Instr(m1, r, M_ZP0, M_LDA, 3)
                     [] opcode = 141 -> M_Instr(m1, r, M_ABS, M_STA, 4)
                     [] opcode = 157 -> M_Instr(m1, r, M_ABX, M_STA, 5)
                     [] opcode = 189 -> M_Instr(m1, r, M_ABX, M_LDA, 4)
                     [] opcode = 232 -> M_Instr(m1, r, M_IMP, M_INX, 2)
                     [] opcode = 76 -> M_Instr(m1, r, M_ABS, M_JMP, 3)
                     [] OTHER ->
                          [m1 EXCEPT !.cpu.illegal_opcodes =
                                         Poke(@, opcode, Peek(@, opcode) + 1),
                                     !.cpu.cycles = 2]
         IN  [m2 EXCEPT !.cpu.cycles = @ - 1]
    ELSE [m EXCEPT !.cpu.cycles = @ - 1]

\* "if self.system_clock_counter % 3 == 0", tested after the increment
M_CpuTurn(n) == n % 3 = 0

\* Bus.clock(), reported as E_BusClock reports
M_BusClockCpu(m2, r, pc) ==
    LET n == m2.bus.system_clock_counter + 1
        c == m2.cpu
        turn == M_CpuTurn(n)
        Counted(m3) == [m3 EXCEPT !.bus.system_clock_counter = n % 6]
        DmaRead(b) == [b.m EXCEPT !.ppu.oam_data = b.data]
    IN  [m |-> Counted(
               IF ~turn THEN m2
               ELSE IF ~c.dma_transfer THEN M_CpuClock(m2, r)
               ELSE IF c.dma_dummy
               THEN (IF n % 2 = 1 THEN [m2 EXCEPT !.cpu.dma_dummy = FALSE] ELSE m2)
               ELSE IF n % 2 = 0
               THEN DmaRead(M_BusCpuRead(m2, r, c.dma_page * 256 + c.dma_addr))
               ELSE LET done == c.dma_addr + 1 = OamSize
                    IN  [m2 EXCEPT !.ppu.oam = Poke(@, c.dma_addr, m2.ppu.oam_data),
                                   !.cpu.dma_addr = IF done THEN 0 ELSE @ + 1,
                                   !.cpu.dma_transfer = IF done THEN FALSE ELSE @,
                                   !.cpu.dma_dummy = IF done THEN TRUE ELSE @]),
         ran |-> IF ~turn THEN "none" ELSE IF c.dma_transfer THEN "dma" ELSE "cpu",
         raised |-> FALSE, nmi |-> pc.nmi, dot |-> pc.dot, frame |-> pc.frame]

M_BusClockPpu(m, r, pc) ==
    M_BusClockCpu(IF pc.nmi THEN M_non_maskable_interrupt([m EXCEPT !.ppu = pc.ppu], r)
                  ELSE [m EXCEPT !.ppu = pc.ppu],
                  r, pc)

M_BusClock(m, r) == M_BusClockPpu(m, r, M_PpuClock(m.ppu))

\* the machine the host leaves after load_rom(): reset_emulator() runs
\* cpu.reset() and ppu.__init__()
M_MachineInit(r) ==
    LET m == M_CpuReset([cpu |-> M_CpuInit, bus |-> M_BusInit, ppu |-> M_PpuInit], r)
    IN  [m EXCEPT !.ppu = M_PpuInit]

(***************************************************************************)
(* The hosts' load of a ROM file.  The host is the record [data, cart,     *)
(* rom_loaded, error]: the file chosen, the cartridge inserted in the Bus  *)
(* (Absent if none), the host's flag that a ROM is loaded (CATNES:         *)
(* current_rom is set), and the exception its handler caught ("" if none). *)
(* The reset at the end of a load reads the reset vector through the       *)
(* cartridge, which is where a PRG region cut short raises.                *)
(***************************************************************************)
HostInit(data) == [data |-> data, cart |-> Absent, rom_loaded |-> FALSE, error |-> ""]

\* CATNES Cartridge.cpu_read(addr) in PRG space: the index into prg_rom
C_PrgIndex(cart, addr) ==
    IF cart.prg_banks = 1 THEN BitAnd(addr - 32768, 16383) ELSE addr - 32768

\* EMUNES5 load_rom(), from "rom = NESRom(rom_data)" on
E_load_rom(data) ==
    LET c == E_NESRomInit(data)
        raises == \E a \in {32764, 32765} : E_read_prg_raises(c.rom, a)
    IN  IF c.error # "" THEN [HostInit(data) EXCEPT !.error = c.error]
        ELSE [data |-> data, cart |-> c.rom, rom_loaded |-> TRUE,
              error |-> IF raises THEN "IndexError" ELSE ""]

\* MonikaNES load_rom(), from "self.rom = NESRom(rom_data)" on
M_load_rom(data) ==
    LET c == M_NESRomInit(data)
        raises == \E a \in {32764, 32765} : M_read_prg_raises(c.rom, a)
    IN  IF c.error # "" THEN [HostInit(data) EXCEPT !.error = c.error]
        ELSE [data |-> data, cart |-> c.rom, rom_loaded |-> ~raises,
              error |-> IF raises THEN "IndexError" ELSE ""]

\* CATNES load_rom_action(), from "rom = NESRom(file_path)" on
C_load_rom(data) ==
    LET r == C_NESRomInit(data)
        cart == C_CartridgeInit(r)
        raises == \E a \in {65532, 65533} : PrgRomRaises(r, C_PrgIndex(cart, a))
    IN  IF ~r.valid THEN [HostInit(data) EXCEPT !.error = "ValueError"]
        ELSE [data |-> data, cart |-> cart, rom_loaded |-> ~raises,
              error |-> IF raises THEN "IndexError" ELSE ""]

LoadRomOf(i, data) ==
    CASE i = "EMUNES5" -> E_load_rom(data)
      [] i = "Monika" -> M_load_rom(data)
      [] i = "CATNES" -> C_load_rom(data)

\* the mapper id a cartridge holds
MapperOf(i, cart) == IF i = "CATNES" THEN cart.rom.mapper_id ELSE cart.mapper

\* Cartridge.cpu_read(addr) for addr in PRG space: the byte returned, whether the
\* call raises instead, and whether the byte was taken from prg_rom
CartReadOf(i, cart, addr) ==
    CASE i = "EMUNES5" ->
           [data |-> E_read_prg(cart, addr - 32768),
            raised |-> E_read_prg_raises(cart, addr - 32768),
            served |-> cart.mapper = 0]
      [] i = "Monika" ->
           [data |-> M_read_prg(cart, addr - 32768),
            raised |-> M_read_prg_raises(cart, addr - 32768),
            served |-> cart.prg_rom_size \in {16384, 32768}]
      [] i = "CATNES" ->
           [data |-> PrgRomAt(cart.rom, C_PrgIndex(cart, addr)),
            raised |-> PrgRomRaises(cart.rom, C_PrgIndex(cart, addr)),
            served |-> TRUE]

\* the files handed to the loaders: the header bytes and lengths tried
LoadImage == [ctrl |-> 0, pad |-> FALSE, page |-> 128]
Magics == {Magic, <<78, 69, 83, 0>>}
FileLens == {3, 10, 16, 16400, 16912, 24592, 32784}
PrgPages == {0, 1, 2}
ChrPages == {0, 1}
Flags6 == {0, 4, 16}
Flags7 == {0, 16}
PrgAddrs == {32768, 49152, 65532}

Files ==
    {FileOf(LoadImage, mg, n, h4, h5, h6, h7) :
        mg \in Magics, n \in FileLens, h4 \in PrgPages, h5 \in ChrPages,
        h6 \in Flags6, h7 \in Flags7}

InitLoad ==
    /\ impl \in ClockedImpls
    /\ \E data \in Files : rom = HostInit(data)
    /\ ppu = Absent /\ cpu = Absent /\ bus = Absent
    /\ obs = [read |-> Absent]

\* the host loads the file chosen
LoadRom ==
    /\ rom = HostInit(rom.data)
    /\ rom' = LoadRomOf(impl, rom.data)
    /\ UNCHANGED <<impl, ppu, cpu, bus, obs>>

\* the CPU reads PRG space through the cartridge inserted
CartRead(addr) ==
    /\ rom.cart # Absent
    /\ obs' = [read |-> [addr |-> addr] @@ CartReadOf(impl, rom.cart, addr)]
    /\ UNCHANGED <<impl, ppu, cpu, bus, rom>>

NextLoad ==
    \/ LoadRom
    \/ \E addr \in PrgAddrs : CartRead(addr)

SpecLoad == InitLoad /\ [][NextLoad]_vars

\* the bytes a file's header declares: header, trainer, PRG, CHR
DeclaredLen(data) ==
    HeaderSize + (IF HasTrainer(data.head[7]) THEN TrainerSize ELSE 0)
        + data.head[5] * PrgBank + data.head[6] * ChrPage

\* C9: no cartridge is built from a ROM whose mapper id is not 0 (the load
\* fails), and no read of PRG space is served from the PRG bytes of such a ROM.
C9_UnsupportedMapperFails ==
    /\ rom.cart # Absent => MapperOf(impl, rom.cart) = 0
    /\ obs.read # Absent /\ obs.read.served => MapperOf(impl, rom.cart) = 0

\* C10: a load that builds a cartridge, or leaves the host with a ROM loaded,
\* was given a buffer that starts with the iNES magic and is at least as long
\* as 16 + trainer + declared PRG + declared CHR bytes (so no 10-byte buffer).
C10_LoadValidates ==
    (rom.cart # Absent \/ rom.rom_loaded) =>
        /\ ~BadMagic(rom.data)
        /\ rom.data.len >= DeclaredLen(rom.data)

(***************************************************************************)
(* The emulators with a Bus.clock(), run by their hosts' frame loops on a  *)
(* cartridge loaded from the well-formed file of a program.                *)
(***************************************************************************)
BusImpls == {"EMUNES5", "Monika"}

MachineInitOf(i, r) == IF i = "EMUNES5" THEN E_MachineInit(r) ELSE M_MachineInit(r)

BusClockOf(i, m, r) == IF i = "EMUNES5" THEN E_BusClock(m, r) ELSE M_BusClock(m, r)

\* the CPU is about to fetch the program's STA $4014
AtDmaStore(c, r) ==
    /\ c.cycles = 0
    /\ c.pc >= 32768
    /\ ProgramByte(r.data.image, (c.pc - 32768) % PrgBank) = 141
    /\ ProgramByte(r.data.image, (c.pc + 1 - 32768) % PrgBank) = 20
    /\ ProgramByte(r.data.image, (c.pc + 2 - 32768) % PrgBank) = 64

\* the observers of a run on the Bus.  counting: the run counts its calls (and
\* ends at MaxCalls); calls, ppuClocks, cpuClocks, dmaSlots: the Bus.clock()
\* calls made, and those of them that called ppu.clock(), that called
\* cpu.clock(), that were the CPU's turn and were given to the DMA;
\* dmaWritten: the program has written the DMA port, on a CPU cycle of odd index
\* if dmaOdd; dmaSeen: a call has started with a DMA in flight; held: the CPU's
\* cycles, opcode and count of clocks after the call that started the DMA;
\* raised: the last call
\* ended in an exception; dot: it ran scanline 241 cycle 1
BusObsInit(counting) ==
    [counting |-> counting, calls |-> 0, ppuClocks |-> 0, cpuClocks |-> 0,
     dmaSlots |-> 0, dmaWritten |-> FALSE, dmaOdd |-> FALSE, dmaSeen |-> FALSE,
     held |-> [cycles |-> 0, opcode |-> 0, cpuClocks |-> 0],
     raised |-> FALSE, dot |-> FALSE]

BusObsAfter(o, m, r, res) ==
    LET store == res.ran = "cpu" /\ AtDmaStore(m.cpu, r)
        started == ~m.cpu.dma_transfer /\ res.m.cpu.dma_transfer
        one(b) == IF o.counting /\ b THEN 1 ELSE 0
    IN  [o EXCEPT !.calls = @ + one(TRUE),
                  !.ppuClocks = @ + one(TRUE),
                  !.cpuClocks = @ + one(res.ran = "cpu"),
                  !.dmaSlots = @ + one(res.ran = "dma"),
                  !.dmaWritten = @ \/ store,
                  !.dmaOdd = IF store /\ ~o.dmaWritten THEN o.cpuClocks % 2 = 1 ELSE @,
                  !.dmaSeen = @ \/ m.cpu.dma_transfer,
                  !.held = IF started
                           THEN [cycles |-> res.m.cpu.cycles,
                                 opcode |-> res.m.cpu.opcode,
                                 cpuClocks |-> o.cpuClocks + one(res.ran = "cpu")]
                           ELSE @,
                  !.raised = res.raised,
                  !.dot = res.dot]

InitBus(counting, images) ==
    /\ impl \in BusImpls
    /\ \E img \in images :
       \E host \in {LoadRomOf(impl, GoodFile(img))} :
       \E m \in {MachineInitOf(impl, host.cart)} :
          rom = host /\ cpu = m.cpu /\ bus = m.bus /\ ppu = m.ppu
    /\ obs = BusObsInit(counting)

\* the programs of the counted behaviours: the one without the pad leaves the
\* NMI disabled, the one with the pad enables it
CountedImages == {img \in Images : img.pad = (img.ctrl = 128)}

Init == InitBus(TRUE, CountedImages)

\* one iteration of "while not self.ppu.frame_complete: self.bus.clock()"
BusClock ==
    /\ impl \in BusImpls
    /\ ~ppu.frame_complete
    /\ obs.counting => obs.calls < MaxCalls
    /\ LET m == [cpu |-> cpu, bus |-> bus, ppu |-> ppu]
       IN  \E res \in {BusClockOf(impl, m, rom.cart)} :
              /\ cpu' = res.m.cpu /\ bus' = res.m.bus /\ ppu' = res.m.ppu
              /\ obs' = BusObsAfter(obs, m, rom.cart, res)
    /\ UNCHANGED <<impl, rom>>

Next ==
    \/ BusClock
    \/ HostEndFrame

Spec == Init /\ [][Next]_vars

InitDma ==
    /\ impl = "EMUNES5"
    /\ InitBus(FALSE, {img \in Images : img.ctrl = 0})

NextDma ==
    \/ BusClock
    \/ HostEndFrame

ClockedForever == []<>(ppu.scanline = 0) /\ []<>(ppu.scanline = 131)

SpecDma == InitDma /\ [][NextDma]_vars /\ WF_vars(HostEndFrame) /\ ClockedForever

\* the byte the CPU's memory holds at addr: RAM below 0x2000, PRG ROM from 0x8000
CpuByte(addr) ==
    IF addr <= 8191 THEN Peek(bus.cpu_ram, BitAnd(addr, 2047))
    ELSE IF addr >= 32768
    THEN ProgramByte(rom.data.image, (addr - 32768) % PrgBank)
    ELSE 0

\* OAM[i] is the byte at (page << 8) + i, for every i
OamHoldsPage ==
    \A i \in 0..(OamSize - 1) :
        Peek(ppu.oam, i) = CpuByte(rom.data.image.page * 256 + i)

\* C4: once the program has written page P to 0x4014, repeated Bus.clock()
\* calls lead to a state where the DMA has ended (dma_transfer cleared, so the
\* CPU runs again) and OAM[i] holds the byte at (P << 8) + i for every i.
C4_DmaCompletes == obs.dmaWritten ~> (~cpu.dma_transfer /\ OamHoldsPage)

\* C5: a DMA takes the CPU's turn of exactly 513 Bus.clock() calls when the
\* write to 0x4014 ran on a CPU cycle of even index, 514 when odd: never more
\* while it is in flight, and that many once the CPU runs again.
C5_DmaCost ==
    LET cost == IF obs.dmaOdd THEN 514 ELSE 513
    IN  /\ obs.dmaSlots <= cost
        /\ obs.dmaWritten /\ ~cpu.dma_transfer => obs.dmaSlots = cost

\* C6: while a DMA is in flight the CPU is not clocked, and its remaining-cycle
\* counter and opcode stay as they were when the DMA started.
C6_CpuHeldDuringDma ==
    cpu.dma_transfer =>
        /\ obs.cpuClocks = obs.held.cpuClocks
        /\ cpu.cycles = obs.held.cycles
        /\ cpu.opcode = obs.held.opcode

(***************************************************************************)
(* The hosts that build their Bus from the ROM's bytes: EMUNESApp of        *)
(* CatNES4k and of ChatGPTPRO5.23.25EMUAINES ("GIGA").  The host is the     *)
(* record [bus, cpu, ppu, loaded]: its references to the three objects      *)
(* (Absent where it holds none) and whether it takes the ROM as loaded      *)
(* (CatNES4k: is_rom_loaded; GIGA: the Run button is enabled).  A Bus is    *)
(* held by the file it was built from and the slice that is its PRG.        *)
(***************************************************************************)
SessionImpls == {"CatNES4k", "GIGA"}

\* the host after EMUNESApp.__init__
NoSession == [bus |-> Absent, cpu |-> Absent, ppu |-> Absent, loaded |-> FALSE]

\* INESHeader.__init__ of CatNES4k and GIGA: it raises ValueError
S_HeaderRaises(data) == data.len < HeaderSize \/ BadMagic(data)

\* Bus.__init__(prg, chr) on the slices _load_rom cuts from the file
S_BusInit(data) ==
    LET off == HeaderSize + (IF HasTrainer(data.head[7]) THEN TrainerSize ELSE 0)
        prg_size == data.head[5] * PrgBank
    IN  [data |-> data, prg_start |-> off,
         prg_len |-> SliceLen(data, off, off + prg_size)]

\* Bus.read(addr) for addr in PRG space: "(addr - 0x8000) % len(self.prg)"
\* raises ZeroDivisionError on an empty PRG
S_BusReadRaises(b, addr) == b.prg_len = 0

S_BusRead(b, addr) == FileByte(b.data, b.prg_start + ((addr - 32768) % b.prg_len))

\* CPU6502.__init__(bus), and reset() on it
S_CpuInit(b) == [bus |-> b, pc |-> 0, sp |-> 253, status |-> 36, cycles |-> 0]

S_CpuReset(c) ==
    [c EXCEPT !.pc = BitOr(S_BusRead(c.bus, 65533) * 256, S_BusRead(c.bus, 65532)),
              !.cycles = 7]

\* CatNES4k load_rom_from_data(rom_data): the host after it and the exception
\* its handlers caught ("" if none)
K_load_rom_from_data(h, data) ==
    IF S_HeaderRaises(data) THEN [host |-> h, error |-> "ValueError"]
    ELSE LET b == S_BusInit(data)
             made == [h EXCEPT !.bus = b, !.cpu = S_CpuInit(b), !.ppu = [bus |-> b]]
         IN  IF S_BusReadRaises(b, 65532)
             THEN [host |-> made, error |-> "ZeroDivisionError"]
             ELSE [host |-> [made EXCEPT !.cpu = S_CpuReset(@), !.loaded = TRUE],
                   error |-> ""]

\* GIGA _load_rom(), from "hdr = INESHeader(data[:INES_HEADER_SIZE])" on
G_load_rom(h, data) ==
    IF S_HeaderRaises(data) THEN [host |-> h, error |-> "ValueError"]
    ELSE LET b == S_BusInit(data)
             made == [h EXCEPT !.bus = b, !.cpu = S_CpuInit(b)]
         IN  IF S_BusReadRaises(b, 65532)
             THEN [host |-> made, error |-> "ZeroDivisionError"]
             ELSE [host |-> [made EXCEPT !.cpu = S_CpuReset(@), !.loaded = TRUE],
                   error |-> ""]

SessionLoadOf(i, h, data) ==
    IF i = "CatNES4k" THEN K_load_rom_from_data(h, data) ELSE G_load_rom(h, data)

\* the loads one behaviour follows
MaxLoads == 2

InitSession ==
    /\ impl \in SessionImpls
    /\ rom = NoSession
    /\ ppu = Absent /\ cpu = Absent /\ bus = Absent
    /\ obs = [loads |-> 0, failed |-> FALSE, before |-> NoSession]

\* the user loads a file: the whole of the load handler
SessionLoad(data) ==
    /\ obs.loads < MaxLoads
    /\ \E out \in {SessionLoadOf(impl, rom, data)} :
          /\ rom' = out.host
          /\ obs' = [loads |-> obs.loads + 1, failed |-> out.error # "",
                     before |-> rom]
    /\ UNCHANGED <<impl, ppu, cpu, bus>>

NextSession == \E data \in Files : SessionLoad(data)

SpecSession == InitSession /\ [][NextSession]_vars

\* C11: after a load that failed, the host's bus, CPU and PPU references and
\* its ROM-loaded state are what they were before the load.
C11_FailedLoadLeavesNoSession == obs.failed => rom = obs.before

(***************************************************************************)
(* The header parsers on every pair of flag bytes.  The state holds the     *)
(* file in rom and, once the parser has run, the mapper id it stored.       *)
(***************************************************************************)
HeaderImpls == {"EMUNES5", "Monika", "CatNES4k"}

HeaderBytes == 0..255

\* CatNES4k INESHeader.__init__(data)
K_INESHeaderInit(data) ==
    IF data.len < HeaderSize \/ BadMagic(data) THEN [error |-> "ValueError", rom |-> Absent]
    ELSE LET flags6 == data.head[7]
             flags7 == data.head[8]
             mapper_lo == flags6 \div 16
             mapper_hi == BitAnd(flags7, 240)
         IN  [error |-> "",
              rom |-> [prg_pages |-> data.head[5], chr_pages |-> data.head[6],
                       trainer |-> HasTrainer(flags6),
                       mapper |-> BitOr(mapper_hi, mapper_lo)]]

HeaderInitOf(i, data) ==
    IF i = "EMUNES5" THEN E_NESRomInit(data)
    ELSE IF i = "Monika" THEN M_NESRomInit(data)
    ELSE K_INESHeaderInit(data)

InitHeader ==
    /\ impl \in HeaderImpls
    /\ \E flags6 \in HeaderBytes, flags7 \in HeaderBytes :
          rom = FileOf(LoadImage, Magic, HeaderSize + PrgBank, 1, 0, flags6, flags7)
    /\ ppu = Absent /\ cpu = Absent /\ bus = Absent
    /\ obs = [parsed |-> FALSE, mapper |-> 0]

\* the loader builds the header object from the file
ParseHeader ==
    /\ ~obs.parsed
    /\ \E h \in {HeaderInitOf(impl, rom)} :
          obs' = [parsed |-> TRUE, mapper |-> h.rom.mapper]
    /\ UNCHANGED <<impl, ppu, cpu, bus, rom>>

NextHeader == ParseHeader

SpecHeader == InitHeader /\ [][NextHeader]_vars

\* C12: the mapper id a parser stores is the high nibble of flags 7 as its
\* high nibble and the high nibble of flags 6 as its low nibble:
\* (flags7 AND 0xF0) OR (flags6 >> 4).
C12_MapperNibbles ==
    obs.parsed => obs.mapper = BitOr(BitAnd(rom.head[8], 240), rom.head[7] \div 16)

(***************************************************************************)
(* CPU reads of PRG space, 0x8000..0xFFFF, through the cartridge of a       *)
(* mapper-0 file with one or two PRG banks, whole or cut short.             *)
(***************************************************************************)
\* MonikaNES NESRom.read_prg(addr): the index into prg_rom, where it takes one
M_PrgIndex(r, addr) ==
    IF r.prg_rom_size = 16384 THEN addr % 16384 ELSE addr % 32768

\* Cartridge.cpu_read(addr) for addr in 0x8000..0xFFFF: the subscript taken of
\* prg_rom (-1 if none is taken), the byte returned and whether the call raises
PrgReadOf(i, cart, addr) ==
    IF i = "EMUNES5"
    THEN [index |-> IF cart.mapper = 0 THEN E_PrgIndex(cart, addr - 32768) ELSE -1,
          raised |-> E_read_prg_raises(cart, addr - 32768),
          data |-> E_read_prg(cart, addr - 32768)]
    ELSE [index |-> IF cart.prg_rom_size \in {16384, 32768}
                    THEN M_PrgIndex(cart, addr - 32768) ELSE -1,
          raised |-> M_read_prg_raises(cart, addr - 32768),
          data |-> M_read_prg(cart, addr - 32768)]

PrgSpace == 32768..65535

NromFiles ==
    {FileOf(LoadImage, Magic, n, h4, 0, h6, 0) :
        n \in {HeaderSize + PrgBank, HeaderSize + 2 * PrgBank}, h4 \in {1, 2}, h6 \in {0, 4}}

InitPrg ==
    /\ impl \in BusImpls
    /\ \E data \in NromFiles : rom = LoadRomOf(impl, data)
    /\ ppu = Absent /\ cpu = Absent /\ bus = Absent
    /\ \E addr \in PrgSpace : obs = [addr |-> addr, read |-> Absent]

\* the CPU reads obs.addr through the cartridge; a read changes nothing in the
\* cartridge, and a behaviour follows one read
PrgRead ==
    /\ rom.cart # Absent /\ obs.read = Absent
    /\ \E res \in {PrgReadOf(impl, rom.cart, obs.addr)} :
          obs' = [obs EXCEPT !.read = IF res.raised THEN [res EXCEPT !.data = 0] ELSE res]
    /\ UNCHANGED <<impl, ppu, cpu, bus, rom>>

NextPrg == PrgRead

SpecPrg == InitPrg /\ [][NextPrg]_vars

\* the cartridge holds all the PRG bytes its header declares
WholePrg(cart) == cart.prg_len = cart.prg_rom_size

\* C13: a read of a in 0x8000..0xFFFF from an NROM cartridge returns
\* prg[(a - 0x8000) mod prg_len]; with a 16KB PRG the byte read at 0x8000 + k
\* is the byte read at 0xC000 + k.
C13_PrgMirrors ==
    (obs.read # Absent /\ WholePrg(rom.cart)) =>
        /\ ~obs.read.raised
        /\ obs.read.index = (obs.addr - 32768) % rom.cart.prg_len
        /\ obs.read.data = PrgRomAt(rom.cart, (obs.addr - 32768) % rom.cart.prg_len)
        /\ rom.cart.prg_len = PrgBank =>
              obs.read.data =
                  PrgReadOf(impl, rom.cart, 32768 + ((obs.addr - 16384) % 32768)).data

\* a 16KB cartridge has answered a read in 0xC000..0xFFFF from the byte its
\* program holds there
C13_Witness ==
    /\ obs.read # Absent /\ WholePrg(rom.cart)
    /\ rom.cart.prg_len = PrgBank
    /\ obs.addr = 49152 /\ obs.read.index = 0 /\ obs.read.data = 169

(***************************************************************************)
(* The pattern-table window, PPU addresses 0x0000..0x1FFF, of EMUNES5 and   *)
(* CATNES.  The cartridge is rom.cart; bus holds the bytes a PPU write can  *)
(* change: EMUNES5's chr_ram (none: it is None), and what has been stored in *)
(* CATNES's chr_rom bytearray over the bytes it was built with.             *)
(***************************************************************************)
ChrImpls == {"EMUNES5", "CATNES"}

\* CATNES NESRom.__init__: chr_rom is bytearray(8192) for a header with no CHR
\* bank and the file's CHR bytes otherwise; stored holds the cells written since
C_ChrInit(cart) == [ram |-> cart.rom.data.head[6] = 0, stored |-> [i \in {} |-> 0]]

\* CATNES Cartridge.ppu_read(addr), addr in the window
C_CartPpuRead(cart, st, addr) ==
    LET r == cart.rom
        chr_start == r.prg_rom_start + r.data.head[5] * 16384
    IN  [raised |-> addr >= r.chr_len,
         data |-> IF addr >= r.chr_len THEN 0
                  ELSE IF addr \in DOMAIN st.stored THEN st.stored[addr]
                  ELSE IF st.ram THEN 0
                  ELSE FileByte(r.data, chr_start + addr)]

\* CATNES Cartridge.ppu_write(addr, data): its test reads self.rom.chr_banks,
\* an attribute NESRom objects do not have (chr_banks is set on the Cartridge),
\* so the call raises AttributeError before it stores
C_CartPpuWrite(cart, st, addr, data) == [store |-> st, raised |-> TRUE]

ChrInitOf(i, cart) == IF i = "EMUNES5" THEN E_ChrInit(cart) ELSE C_ChrInit(cart)

ChrReadOf(i, cart, st, addr) ==
    IF i = "EMUNES5" THEN E_read_chr(cart, st, addr) ELSE C_CartPpuRead(cart, st, addr)

ChrWriteOf(i, cart, st, addr, data) ==
    IF i = "EMUNES5" THEN E_write_chr(cart, st, addr, data)
    ELSE C_CartPpuWrite(cart, st, addr, data)

\* whether CHR-ROM, and whether CHR-RAM, is what the window reads
HasChrRom(i, cart) ==
    IF i = "EMUNES5" THEN cart.chr_rom_size > 0 ELSE cart.rom.data.head[6] # 0

HasChrRam(i, st) == IF i = "EMUNES5" THEN ~st.none ELSE st.ram

ChrAddrs == {0, 4096, 8191}
ChrData == {0, 85, 255}
\* the PPU writes one behaviour follows
MaxChrWrites == 2

ChrFiles ==
    {FileOf(LoadImage, Magic, HeaderSize + PrgBank, 1, 0, 0, 0),
     FileOf(LoadImage, Magic, HeaderSize + PrgBank + ChrPage, 1, 0, 0, 0),
     FileOf(LoadImage, Magic, HeaderSize + PrgBank + ChrPage, 1, 1, 0, 0)}

InitChr ==
    /\ impl \in ChrImpls
    /\ \E data \in ChrFiles : \E host \in {LoadRomOf(impl, data)} :
          rom = host /\ bus = ChrInitOf(impl, host.cart)
    /\ ppu = Absent /\ cpu = Absent
    /\ obs = [written |-> [a \in ChrAddrs |-> -1], writes |-> 0, read |-> Absent]
       \* written: the latest value written at each address (-1: none yet);
       \* read: the last read, if no write came after it

\* the PPU writes data at addr of the window
ChrWrite(addr, data) ==
    /\ obs.writes < MaxChrWrites
    /\ \E res \in {ChrWriteOf(impl, rom.cart, bus, addr, data)} :
          /\ bus' = res.store
          /\ obs' = [obs EXCEPT !.written[addr] = data, !.writes = @ + 1,
                                !.read = Absent]
    /\ UNCHANGED <<impl, ppu, cpu, rom>>

\* the PPU reads addr of the window
ChrRead(addr) ==
    /\ obs' = [obs EXCEPT !.read = [addr |-> addr] @@ ChrReadOf(impl, rom.cart, bus, addr)]
    /\ UNCHANGED <<impl, ppu, cpu, bus, rom>>

NextChr ==
    \/ \E addr \in ChrAddrs, data \in ChrData : ChrWrite(addr, data)
    \/ \E addr \in ChrAddrs : ChrRead(addr)

SpecChr == InitChr /\ [][NextChr]_vars

\* byte addr of the CHR-ROM the file holds after its PRG banks
ChrRomByte(data, addr) ==
    FileByte(data, HeaderSize + (IF HasTrainer(data.head[7]) THEN TrainerSize ELSE 0)
                       + data.head[5] * PrgBank + addr)

\* C14: exactly one of CHR-ROM and CHR-RAM backs 0x0000..0x1FFF; with CHR-ROM
\* every read returns the ROM's byte whatever has been written; with CHR-RAM a
\* read of an address written before returns the value of the latest write.
C14_ChrBacking ==
    /\ HasChrRom(impl, rom.cart) # HasChrRam(impl, bus)
    /\ (obs.read # Absent /\ HasChrRom(impl, rom.cart)) =>
          /\ ~obs.read.raised
          /\ obs.read.data = ChrRomByte(rom.data, obs.read.addr)
    /\ (obs.read # Absent /\ HasChrRam(impl, bus)
            /\ obs.written[obs.read.addr] # -1) =>
          /\ ~obs.read.raised
          /\ obs.read.data = obs.written[obs.read.addr]

\* C15: reset() costs 7 cycles: the 7 cpu.clock() calls that follow reset()
\* fetch nothing (pc stays at the reset vector's address) and leave the CPU
\* about to fetch, so that the 8th call fetches the first opcode.
C15_ResetCosts7 ==
    (obs.counting /\ obs.cpuClocks <= 7) =>
        /\ cpu.pc = 32768
        /\ obs.cpuClocks = 7 => cpu.cycles = 0

(***************************************************************************)
(* Entry into the NMI handler, on the CPUs of EMUNES5, MonikaNES and        *)
(* CatNES4k, from the states the CPU can be in between two instructions.    *)
(* CatNES4k's machine is [cpu, bus, ppu] too: its CPU6502, the cpu_ram of   *)
(* its Bus (whose PRG is rom.bus), and no PPU, which an NMI does not touch. *)
(* Its cpu.cycles counts all the cycles taken so far; in the other two it   *)
(* is the count of clock() calls left before the next fetch.                *)
(***************************************************************************)
NmiImpls == {"EMUNES5", "Monika", "CatNES4k"}

\* CatNES4k CPU6502.__init__ and Bus.__init__
K_CpuInit == [pc |-> 0, sp |-> 253, a |-> 0, x |-> 0, y |-> 0, status |-> 36, cycles |-> 0]

K_BusInit == [cpu_ram |-> ZeroBytes]

\* CatNES4k Bus.read(addr) and Bus.write(addr, val) on RAM and PRG space
K_BusRead(m, b, addr0) ==
    LET addr == addr0 % 65536
    IN  IF addr <= 8191 THEN Peek(m.bus.cpu_ram, BitAnd(addr, 2047))
        ELSE IF addr >= 32768 THEN S_BusRead(b, addr)
        ELSE 0

K_BusWrite(m, b, addr0, val) ==
    LET addr == addr0 % 65536
    IN  IF addr <= 8191
        THEN [m EXCEPT !.bus.cpu_ram = Poke(@, BitAnd(addr, 2047), val % 256)]
        ELSE m

\* CatNES4k CPU6502.reset()
K_CpuReset(m, b) ==
    [m EXCEPT !.cpu.pc = BitOr(K_BusRead(m, b, 65533) * 256, K_BusRead(m, b, 65532)),
              !.cpu.a = 0, !.cpu.x = 0, !.cpu.y = 0, !.cpu.sp = 253,
              !.cpu.status = 36, !.cpu.cycles = 7]

\* CatNES4k CPU6502.push_byte(value)
K_push_byte(m, b, value) ==
    [K_BusWrite(m, b, BitOr(256, m.cpu.sp), BitAnd(value, 255))
        EXCEPT !.cpu.sp = BitAnd(m.cpu.sp - 1 + 256, 255)]

\* CatNES4k CPU6502.nmi()
K_nmi(m, b) ==
    LET m1 == K_push_byte(m, b, BitAnd(m.cpu.pc \div 256, 255))
        m2 == K_push_byte(m1, b, BitAnd(m.cpu.pc, 255))
        m3 == K_push_byte(m2, b, BitOr(AndNot(m.cpu.status, 16), 32))
    IN  [m3 EXCEPT !.cpu.status = BitOr(@, 4),
                   !.cpu.pc = BitOr(K_BusRead(m3, b, 65531) * 256, K_BusRead(m3, b, 65530)),
                   !.cpu.cycles = @ + 7]

\* the machine after the host's load of a file
K_MachineInit(b) == K_CpuReset([cpu |-> K_CpuInit, bus |-> K_BusInit, ppu |-> Absent], b)

CpuHostOf(i, data) ==
    IF i = "CatNES4k" THEN K_load_rom_from_data(NoSession, data).host
    ELSE LoadRomOf(i, data)

CpuMachineOf(i, host) ==
    IF i = "CatNES4k" THEN K_MachineInit(host.bus) ELSE MachineInitOf(i, host.cart)

NmiOf(i, m, host) ==
    CASE i = "EMUNES5" -> E_non_maskable_interrupt(m, host.cart)
      [] i = "Monika" -> M_non_maskable_interrupt(m, host.cart)
      [] i = "CatNES4k" -> K_nmi(m, host.bus)

\* the stack pointer of a CPU, and the CPU with another
SpOf(i, c) == IF i = "CatNES4k" THEN c.sp ELSE c.stkp

WithSp(i, c, sp) == IF i = "CatNES4k" THEN [c EXCEPT !.sp = sp] ELSE [c EXCEPT !.stkp = sp]

\* the status bytes a CPU can hold between two instructions: EMUNES5 keeps U
\* set and B clear; MonikaNES clears U in RTI; CatNES4k has no opcode that
\* clears I
StatusesOf(i) ==
    CASE i = "EMUNES5" -> {36, 32, 161}
      [] i = "Monika" -> {36, 32, 161, 4, 0}
      [] i = "CatNES4k" -> {36, 38, 164}

NmiPcs == {32768, 33023, 65535}
NmiSps == {253, 128}
\* cpu.cycles when the NMI comes
CyclesOf(i) == IF i = "CatNES4k" THEN {7, 9} ELSE {0, 1, 3}

InitNmiEntry ==
    /\ impl \in NmiImpls
    /\ \E host \in {CpuHostOf(impl, GoodFile(LoadImage))} :
       \E m \in {CpuMachineOf(impl, host)} :
       \E pc \in NmiPcs, st \in StatusesOf(impl), sp \in NmiSps, cy \in CyclesOf(impl) :
          /\ rom = host /\ bus = m.bus /\ ppu = m.ppu
          /\ cpu = WithSp(impl, [m.cpu EXCEPT !.pc = pc, !.status = st, !.cycles = cy], sp)
    /\ obs = [entered |-> FALSE, before |-> Absent]

\* the PPU raises the NMI: cpu.non_maskable_interrupt() / cpu.nmi()
NmiEntry ==
    /\ ~obs.entered
    /\ \E m \in {NmiOf(impl, [cpu |-> cpu, bus |-> bus, ppu |-> ppu], rom)} :
          cpu' = m.cpu /\ bus' = m.bus /\ ppu' = m.ppu
    /\ obs' = [entered |-> TRUE, before |-> cpu]
    /\ UNCHANGED <<impl, rom>>

NextNmiEntry == NmiEntry

SpecNmiEntry == InitNmiEntry /\ [][NextNmiEntry]_vars

\* the address in the image's NMI vector
NmiVector == ProgramByte(LoadImage, PrgBank - 6) + 256 * ProgramByte(LoadImage, PrgBank - 5)

\* the cycles an interrupt entry has cost
CostOf(i, before, after) ==
    IF i = "CatNES4k" THEN after.cycles - before.cycles ELSE after.cycles

\* C16: nmi() is taken whatever the I flag: it pushes PC high, PC low and then
\* the status with B cleared and U set, sets I, loads PC from 0xFFFA/0xFFFB
\* and costs 8 cycles.
C16_NmiEntry ==
    obs.entered =>
        LET b == obs.before
            sp == SpOf(impl, b)
        IN  /\ Peek(bus.cpu_ram, 256 + sp) = b.pc \div 256
            /\ Peek(bus.cpu_ram, 256 + sp - 1) = b.pc % 256
            /\ Peek(bus.cpu_ram, 256 + sp - 2) = BitOr(AndNot(b.status, 16), 32)
            /\ SpOf(impl, cpu) = sp - 3
            /\ HasBit(cpu.status, 4)
            /\ cpu.pc = NmiVector
            /\ CostOf(impl, b, cpu) = 8

(***************************************************************************)
(* The CPUs of EMUNES5 and MonikaNES clocked on the programs that exercise  *)
(* them, from the reset a load ends with.  The observers: clocks, the       *)
(* clock() calls made; last, the instruction fetched last: its opcode, the  *)
(* address it was fetched at, the number of the call that fetched it, and   *)
(* the CPU and the RAM as that call found them; prev, the opcode, address   *)
(* and call number of the instruction before it.                            *)
(***************************************************************************)
\* the offsets of the "bne" programs, whose BNE at 0x8000 is followed by
\* 0x8002: to 0x8000 and to 0x8005 on its page, to 0x7FFE on the page before
BranchOffsets == {254, 3, 252}

CpuImages ==
    {[code |-> c, arg |-> 0] :
        c \in {"brk", "branch", "push", "pull", "jsr", "rti", "plp", "untaken",
               "store"}}
        \cup {[code |-> "illegal", arg |-> b] : b \in {2, 255}}
        \cup {[code |-> "bne", arg |-> b] : b \in BranchOffsets}

\* the clock() calls of a behaviour: enough for more than 256 pushes
MaxCpuClocks == 1600

CpuClockOf(i, m, r) == IF i = "EMUNES5" THEN E_CpuClock(m, r) ELSE M_CpuClock(m, r)

\* "self.read(self.pc)" at the start of clock()
OpcodeAt(i, m, r) ==
    IF i = "EMUNES5" THEN E_BusCpuRead(m, r, m.cpu.pc).data
    ELSE M_BusCpuRead(m, r, m.cpu.pc).data

InitCpu ==
    /\ impl \in BusImpls
    /\ \E img \in CpuImages :
       \E host \in {LoadRomOf(impl, GoodFile(img))} :
       \E m \in {MachineInitOf(impl, host.cart)} :
          /\ rom = host /\ cpu = m.cpu /\ bus = m.bus /\ ppu = m.ppu
          /\ obs = [clocks |-> 0,
                    last |-> [opcode |-> -1, at |-> 0, clock |-> 0,
                              cpu |-> m.cpu, ram |-> m.bus.cpu_ram],
                    prev |-> [opcode |-> -1, at |-> 0, clock |-> 0]]

\* one cpu.clock()
CpuStep ==
    /\ obs.clocks < MaxCpuClocks
    /\ LET m == [cpu |-> cpu, bus |-> bus, ppu |-> ppu]
       IN  \E res \in {CpuClockOf(impl, m, rom.cart)} :
           \E op \in {OpcodeAt(impl, m, rom.cart)} :
              /\ cpu' = res.cpu /\ bus' = res.bus /\ ppu' = res.ppu
              /\ obs' = IF cpu.cycles = 0
                        THEN [clocks |-> obs.clocks + 1,
                              last |-> [opcode |-> op, at |-> cpu.pc,
                                        clock |-> obs.clocks + 1,
                                        cpu |-> cpu, ram |-> bus.cpu_ram],
                              prev |-> [opcode |-> obs.last.opcode,
                                        at |-> obs.last.at,
                                        clock |-> obs.last.clock]]
                        ELSE [obs EXCEPT !.clocks = @ + 1]
    /\ UNCHANGED <<impl, rom>>

NextCpu == CpuStep

SpecCpu == InitCpu /\ [][NextCpu]_vars

\* byte addr of the stack page as the RAM holds it
StackByte(addr) == Peek(bus.cpu_ram, BitAnd(addr, 2047))

\* C17: BRK pushes the address of its opcode plus 2 (high byte, then low
\* byte), then the status with B set, and loads PC from 0xFFFE/0xFFFF.
C17_BrkPushes ==
    obs.last.opcode = 0 =>
        LET sp == obs.last.cpu.stkp
        IN  /\ StackByte(256 + sp) * 256 + StackByte(256 + sp - 1)
                  = (obs.last.at + 2) % 65536
            /\ HasBit(StackByte(256 + sp - 2), 16)
            /\ cpu.pc = 32784

\* the opcode bytes of the programs that are outside the official set
UnofficialOpcodes == {2, 255}

\* the count a CPU keeps of the unofficial opcodes it has executed: MonikaNES
\* counts them by opcode in illegal_opcodes; EMUNES5's table holds (IMP, NOP, 2)
\* for them and the CPU keeps no count
DiagnosticCount(i, c) ==
    IF i = "Monika" THEN Peek(c.illegal_opcodes, 2) + Peek(c.illegal_opcodes, 255)
    ELSE 0

\* C18: an opcode outside the official set runs as a 2-cycle NOP: the next
\* opcode is fetched 2 clock() calls after it, at the address after it; A, X,
\* Y, SP, the status and the RAM are as it found them; and the CPU's count of
\* unofficial opcodes has grown by one.
C18_UnofficialIsNop ==
    /\ obs.prev.opcode \in UnofficialOpcodes => obs.last.clock - obs.prev.clock = 2
    /\ obs.last.opcode \in UnofficialOpcodes =>
          LET b == obs.last.cpu
          IN  /\ cpu.pc = (obs.last.at + 1) % 65536
              /\ <<cpu.a, cpu.x, cpu.y, cpu.stkp, cpu.status>>
                    = <<b.a, b.x, b.y, b.stkp, b.status>>
              /\ bus.cpu_ram = obs.last.ram
              /\ DiagnosticCount(impl, cpu) = DiagnosticCount(impl, b) + 1

\* C19: PC wraps modulo 65536: after every clock() call, whatever it fetched
\* or executed (opcode and operand fetches, branches, returns, interrupt
\* entries), PC is in 0..0xFFFF.
C19_PcInRange == cpu.pc \in 0..65535

\* C20: the stack stays in page 1: SP is in 0..0xFF after every clock() call,
\* and the programs, which write memory only by pushing (PHA, JSR, BRK), have
\* written no RAM cell outside 0x0100..0x01FF, also after more than 256 pushes
\* or pulls.
C20_StackInPage ==
    /\ cpu.stkp \in 0..255
    /\ DOMAIN bus.cpu_ram \subseteq 256..511

\* C21: bit 5 of the status register is 1 after reset() and after every
\* clock() call that follows, also the calls in which PLP or RTI pulls a
\* status byte whose bit 5 is 0.
C21_UnusedSet == HasBit(cpu.status, 32)

(***************************************************************************)
(* ADC and SBC, executed by the CPUs of EMUNES5 and MonikaNES: the "adc"    *)
(* and "sbc" programs load the accumulator, set or clear the carry and add  *)
(* or subtract an immediate operand; the observers are those of the CPU     *)
(* runs.                                                                    *)
(***************************************************************************)
\* accumulators and operands: the low nibbles 0, 1 and 0xF under every high
\* nibble, which hold 0x00, 0x01, 0x50, 0x7F, 0x80, 0x81, 0xA0 and 0xFF
AluValues == {v \in 0..255 : v % 16 \in {0, 1, 15}}

AluImages ==
    {[code |-> op, arg |-> mv, a |-> a, c |-> c] :
        op \in {"adc", "sbc"}, mv \in AluValues, a \in AluValues, c \in {0, 1}}

\* the clock() calls of a behaviour: the reset's 8, the three instructions
\* and the fetch that follows them
MaxAluClocks == 18

InitAlu ==
    /\ impl \in BusImpls
    /\ \E img \in AluImages :
       \E host \in {LoadRomOf(impl, GoodFile(img))} :
       \E m \in {MachineInitOf(impl, host.cart)} :
          /\ rom = host /\ cpu = m.cpu /\ bus = m.bus /\ ppu = m.ppu
          /\ obs = [clocks |-> 0,
                    last |-> [opcode |-> -1, at |-> 0, clock |-> 0,
                              cpu |-> m.cpu, ram |-> m.bus.cpu_ram],
                    prev |-> [opcode |-> -1, at |-> 0, clock |-> 0]]

AluStep == obs.clocks < MaxAluClocks /\ CpuStep

NextAlu == AluStep

SpecAlu == InitAlu /\ [][NextAlu]_vars

\* the machine after n clock() calls
RECURSIVE ClockedTimes(_, _, _, _)
ClockedTimes(i, m, r, n) ==
    IF n = 0 THEN m ELSE ClockedTimes(i, CpuClockOf(i, m, r), r, n - 1)

\* the program's accumulator, operand and carry-in
AluA == rom.data.image.a
AluM == rom.data.image.arg
AluC == rom.data.image.c

\* the flags C, Z, V and N of a status byte as a record of 0s and 1s
AluFlags(status) ==
    [c |-> BitAnd(status, 1), z |-> BitAnd(status, 2) \div 2,
     v |-> BitAnd(status, 64) \div 64, n |-> BitAnd(status, 128) \div 128]

\* C22: ADC with accumulator A, operand M and carry-in c leaves, when the next
\* opcode is fetched, A = (A+M+c) mod 256, C = (A+M+c > 255), V = 1 exactly
\* when A and M have the same sign and the result the other, Z = (result = 0)
\* and N = bit 7 of the result.
C22_AdcAdds ==
    (rom.data.image.code = "adc" /\ obs.prev.opcode = 105) =>
        LET sum == AluA + AluM + AluC
            res == sum % 256
        IN  /\ cpu.a = res
            /\ AluFlags(cpu.status) =
                  [c |-> IF sum > 255 THEN 1 ELSE 0,
                   z |-> IF res = 0 THEN 1 ELSE 0,
                   v |-> IF (AluA >= 128) = (AluM >= 128) /\ (res >= 128) # (AluA >= 128)
                         THEN 1 ELSE 0,
                   n |-> res \div 128]

\* the "adc" program with the operand M XOR 0xFF, clocked as often as the
\* "sbc" program has been
AdcOfComplement ==
    LET img == [rom.data.image EXCEPT !.code = "adc", !.arg = BitXor(@, 255)]
        host == LoadRomOf(impl, GoodFile(img))
    IN  ClockedTimes(impl, MachineInitOf(impl, host.cart), host.cart, obs.clocks).cpu

\* C23: SBC with operand M leaves the A, C, V, Z and N that ADC with operand
\* M XOR 0xFF leaves from the same accumulator and carry-in.
C23_SbcIsAdcOfComplement ==
    (rom.data.image.code = "sbc" /\ obs.prev.opcode = 233) =>
        /\ cpu.a = AdcOfComplement.a
        /\ AluFlags(cpu.status) = AluFlags(AdcOfComplement.status)

\* a BNE fetched at prev.at falls through to the address after its operand;
\* the opcode fetched next, at last.at, tells whether it was taken
BranchFall == (obs.prev.at + 2) % 65536
BranchTarget == obs.last.at % 65536
BranchTaken == BranchTarget # BranchFall
BranchCrossed == BranchTaken /\ BranchTarget \div 256 # BranchFall \div 256

\* C24: the clock() calls from the fetch of a branch to the fetch of the next
\* opcode are the base 2 when the branch is not taken, 3 when it is taken to
\* the page of the address after it, 4 when it is taken to another page.
C24_BranchCost ==
    obs.prev.opcode = 208 =>
        obs.last.clock - obs.prev.clock
            = 2 + (IF BranchTaken THEN 1 ELSE 0) + (IF BranchCrossed THEN 1 ELSE 0)

\* the PPU's VRAM address
VramAddrOf(i, p) == IF i = "EMUNES5" THEN p.v ELSE p.vram_addr

\* C25: on the 16KB-PRG, 0-CHR NROM image whose reset vector points at
\* LDA #$42 ; STA $2007 ; JMP *, once the JMP has been fetched A is 0x42 and
\* the PPU has taken the data write: no PPUADDR write came before, so the byte
\* 0x42 is at VRAM address 0, in the cartridge's CHR-RAM, and the VRAM address
\* has moved on to 1.
C25_StoreReachesPpu ==
    (rom.data.image.code = "store" /\ obs.last.opcode = 76) =>
        /\ cpu.a = 66
        /\ Peek(bus.chr_ram, 0) = 66
        /\ VramAddrOf(impl, ppu) = 1

(***************************************************************************)
(* The PPU's CPU ports of EMUNES5, MonikaNES, CATNES and CatNES4k.  A       *)
(* behaviour is a sequence of port writes, port reads and PPU clocks on a   *)
(* machine whose PPU the clock has brought, with rendering off, to the dot  *)
(* that sets VBlank.  EMUNES5 and MonikaNES are driven through their Bus,   *)
(* with a cartridge of 16KB PRG and CHR-RAM, and start with PPU memory the  *)
(* port writes of Prelude have filled; the data port of the other two is    *)
(* not modelled and their register ports are called directly.  The         *)
(* observers: calls, the calls made; op, port, data: the last call ("write",*)
(* "read" or "clock"), its port and the byte written or returned; before,   *)
(* the PPU and Bus as it found them; prev, the same of the call before it.  *)
(***************************************************************************)
PortImpls == {"EMUNES5", "Monika", "CATNES", "CatNES4k"}

\* the PPUs whose data port (7) is modelled
DataImpls == {"EMUNES5", "Monika"}

\* the machine after a CPU write of d to the port
PortWriteOf(i, m, r, port, d) ==
    CASE i = "EMUNES5" -> E_BusCpuWrite(m, r, 8192 + port, d)
      [] i = "Monika" -> M_BusCpuWrite(m, r, 8192 + port, d)
      [] i = "CATNES" -> [m EXCEPT !.ppu = C_PpuCpuWrite(@, port, d)]
      [] i = "CatNES4k" -> [m EXCEPT !.ppu = K_write_register(@, port, d)]

\* the machine after a CPU read of the port, and the byte returned
PortReadOf(i, m, r, port) ==
    CASE i = "EMUNES5" -> E_BusCpuRead(m, r, 8192 + port)
      [] i = "Monika" -> M_BusCpuRead(m, r, 8192 + port)
      [] i = "CATNES" ->
           LET rd == C_PpuCpuRead(m.ppu, port)
           IN  [m |-> [m EXCEPT !.ppu = rd.ppu], data |-> rd.data]
      [] i = "CatNES4k" ->
           LET rd == K_read_register(m.ppu, port)
           IN  [m |-> [m EXCEPT !.ppu = rd.ppu], data |-> rd.data]

\* the byte the PPU reads from its memory at addr (Bus.ppu_read)
PpuMemOf(i, m, r, addr) ==
    IF i = "EMUNES5" THEN E_BusPpuRead(m, r, addr) ELSE M_BusPpuRead(m, r, addr)

\* the registers behind the ports: the VRAM address, the temporary address,
\* whether the next write to the scroll and address ports is a second write,
\* the sprite-overflow and sprite-zero-hit bits, the read buffer
PortV(i, p) ==
    CASE i = "EMUNES5" -> p.v
      [] i \in {"Monika", "CATNES"} -> p.vram_addr
      [] i = "CatNES4k" -> p.ppuaddr

PortT(i, p) ==
    CASE i = "EMUNES5" -> p.t
      [] i = "Monika" -> p.temp_vram_addr
      [] i = "CATNES" -> p.tram_addr
      [] i = "CatNES4k" -> p.vram_address_latch

PortToggle(i, p) ==
    CASE i = "EMUNES5" -> p.w = 1
      [] i = "Monika" -> p.address_latch = 1
      [] i = "CATNES" -> p.addr_latch
      [] i = "CatNES4k" -> ~p.is_first_write_latch

PortSpriteBits(i, p) ==
    CASE i = "EMUNES5" -> BitAnd(p.ppustatus, 96)
      [] i \in {"Monika", "CATNES"} -> BitAnd(p.PPUSTATUS, 96)
      [] i = "CatNES4k" -> BitAnd(p.ppustatus, 96)

PortBuffer(i, p) == IF i = "EMUNES5" THEN p.ppudata_buffer ELSE p.buffer_data

\* the port writes that fill PPU memory: 0x77 at 0x2300 (a nametable), 0x2A at
\* 0x3F00 (the palette), 0x11 at 0x0000 (CHR-RAM); then PPUADDR back to 0
Prelude ==
    <<<<6, 35>>, <<6, 0>>, <<7, 119>>, <<6, 63>>, <<6, 0>>, <<7, 42>>,
      <<6, 0>>, <<6, 0>>, <<7, 17>>, <<6, 0>>, <<6, 0>>>>

RECURSIVE PortWrites(_, _, _, _)
PortWrites(i, m, r, ws) ==
    IF ws = <<>> THEN m
    ELSE PortWrites(i, PortWriteOf(i, m, r, ws[1][1], ws[1][2]), r, Tail(ws))

\* bytes written to the scroll, address and data ports
ScrollData == {0, 255}
AddrData == {0, 35, 255}
DataData == {85}
\* the sprite-zero-hit bit of EMUNES5 at the end of the visible frame
StartSprite == {0, 64}
\* the calls of a behaviour
MaxPortCalls == 5

\* the machine a behaviour starts with
PortsStart(i, r, sprite) ==
    CASE i = "EMUNES5" ->
           [PortWrites(i, E_MachineInit(r), r, Prelude)
               EXCEPT !.ppu.scanline = VBlankScanline, !.ppu.cycle = 1,
                      !.ppu.ppustatus = sprite]
      [] i = "Monika" ->
           [PortWrites(i, M_MachineInit(r), r, Prelude)
               EXCEPT !.ppu.scanline = VBlankScanline, !.ppu.cycle = 1]
      [] i = "CATNES" ->
           [cpu |-> Absent, bus |-> Absent,
            ppu |-> [C_PpuInit EXCEPT !.scanline = VBlankScanline, !.cycle = 1]]
      [] i = "CatNES4k" -> [cpu |-> Absent, bus |-> Absent, ppu |-> K_PpuInit]

PortObs(op, port, data, m) ==
    [op |-> op, port |-> port, data |-> data, before |-> [ppu |-> m.ppu, bus |-> m.bus]]

InitPorts ==
    /\ impl \in PortImpls
    /\ \E host \in {IF impl \in DataImpls
                    THEN LoadRomOf(impl, GoodFile([code |-> "store", arg |-> 0]))
                    ELSE HostInit(GoodFile([code |-> "store", arg |-> 0]))} :
       \E sprite \in (IF impl = "EMUNES5" THEN StartSprite ELSE {0}) :
       \E m \in {PortsStart(impl, host.cart, sprite)} :
          /\ rom = host /\ cpu = m.cpu /\ bus = m.bus /\ ppu = m.ppu
          /\ obs = [calls |-> 0, last |-> PortObs("none", 0, 0, m),
                    prev |-> PortObs("none", 0, 0, m)]

\* a CPU write of d to the port
PortWrite(port, d) ==
    /\ obs.calls < MaxPortCalls
    /\ port = 7 => impl \in DataImpls
    /\ LET m == [cpu |-> cpu, bus |-> bus, ppu |-> ppu]
       IN  \E res \in {PortWriteOf(impl, m, rom.cart, port, d)} :
              /\ ppu' = res.ppu /\ bus' = res.bus
              /\ obs' = [calls |-> obs.calls + 1, last |-> PortObs("write", port, d, m),
                         prev |-> obs.last]
    /\ UNCHANGED <<impl, rom, cpu>>

\* a CPU read of the port
PortRead(port) ==
    /\ obs.calls < MaxPortCalls
    /\ port = 7 => impl \in DataImpls
    /\ LET m == [cpu |-> cpu, bus |-> bus, ppu |-> ppu]
       IN  \E res \in {PortReadOf(impl, m, rom.cart, port)} :
              /\ ppu' = res.m.ppu /\ bus' = res.m.bus
              /\ obs' = [calls |-> obs.calls + 1,
                         last |-> PortObs("read", port, res.data, m),
                         prev |-> obs.last]
    /\ UNCHANGED <<impl, rom, cpu>>

\* one clock() of the PPU
PortClock ==
    /\ obs.calls < MaxPortCalls
    /\ impl \in ClockedImpls
    /\ ppu' = PpuClockOf(impl, ppu).ppu
    /\ obs' = [calls |-> obs.calls + 1,
               last |-> PortObs("clock", 0, 0, [ppu |-> ppu, bus |-> bus]),
               prev |-> obs.last]
    /\ UNCHANGED <<impl, rom, cpu, bus>>

NextPorts ==
    \/ \E d \in ScrollData : PortWrite(5, d)
    \/ \E d \in AddrData : PortWrite(6, d)
    \/ \E d \in DataData : PortWrite(7, d)
    \/ PortRead(2)
    \/ PortRead(7)
    \/ PortClock

SpecPorts == InitPorts /\ [][NextPorts]_vars

\* C26: two consecutive writes h then l to PPUADDR, the first made with the
\* write toggle clear (as after reset or a status read), set the VRAM address
\* v to ((h AND 0x3F) << 8) OR l; two writes of 0x00 set it to 0x0000.
C26_AddrWrites ==
    (/\ obs.last.op = "write" /\ obs.last.port = 6
     /\ obs.prev.op = "write" /\ obs.prev.port = 6
     /\ ~PortToggle(impl, obs.prev.before.ppu)) =>
        PortV(impl, ppu) = BitAnd(obs.prev.data, 63) * 256 + obs.last.data

\* a state after the writes 0xFF then 0x23 with the VRAM address at 0x3F23
C26_Witness ==
    /\ obs.last.op = "write" /\ obs.last.port = 6 /\ obs.last.data = 35
    /\ obs.prev.op = "write" /\ obs.prev.port = 6 /\ obs.prev.data = 255
    /\ ~PortToggle(impl, obs.prev.before.ppu)
    /\ PortV(impl, ppu) = 16163

\* the machine the last call found
PortBefore == [cpu |-> cpu, bus |-> obs.last.before.bus, ppu |-> obs.last.before.ppu]

\* the 14-bit VRAM address the last call found
PortBefore14 == PortV(impl, obs.last.before.ppu) % 16384

\* C27: a PPUDATA read whose 14-bit VRAM address is below 0x3F00 returns the
\* byte the read buffer held and refills the buffer from the addressed byte;
\* one whose 14-bit address is in 0x3F00..0x3FFF returns the palette byte at
\* that address.
C27_BufferedRead ==
    (impl \in DataImpls /\ obs.last.op = "read" /\ obs.last.port = 7) =>
        IF PortBefore14 < 16128
        THEN /\ obs.last.data = PortBuffer(impl, obs.last.before.ppu)
             /\ PortBuffer(impl, ppu) = PpuMemOf(impl, PortBefore, rom.cart, PortBefore14)
        ELSE obs.last.data = PpuMemOf(impl, PortBefore, rom.cart, PortBefore14)

WithPortV(i, p, v) == IF i = "EMUNES5" THEN [p EXCEPT !.v = v] ELSE [p EXCEPT !.vram_addr = v]

\* the machine the last call found, with the VRAM address taken modulo 0x4000
PortBeforeMasked ==
    [PortBefore EXCEPT !.ppu = WithPortV(impl, @, PortBefore14)]

\* C29: the address of a PPUDATA access is masked to 14 bits: a read or write
\* made while v is 0x4000 or above returns the byte and leaves the PPU, its
\* memory and the CHR-RAM as the same access at v mod 0x4000 does.
C29_AddressMasked ==
    (/\ impl \in DataImpls /\ obs.last.port = 7
     /\ PortV(impl, obs.last.before.ppu) >= 16384) =>
        /\ obs.last.op = "read" =>
              LET alt == PortReadOf(impl, PortBeforeMasked, rom.cart, 7)
              IN  /\ obs.last.data = alt.data
                  /\ ppu = alt.m.ppu /\ bus = alt.m.bus
        /\ obs.last.op = "write" =>
              LET alt == PortWriteOf(impl, PortBeforeMasked, rom.cart, 7, obs.last.data)
              IN  ppu = alt.ppu /\ bus = alt.bus

(***************************************************************************)
(* CPU RAM through the Bus with a cartridge inserted: CPU writes and reads *)
(* of RAM addresses and their mirrors, of a cartridge SRAM address and of  *)
(* a PRG address.  obs.written holds, per 2KB cell, the value last written *)
(* to an address of 0x0000..0x1FFF mirrored there.                         *)
(***************************************************************************)
RamImpls == {"EMUNES5", "Monika", "CATNES"}

\* CATNES Cartridge.cpu_read(addr); prg_ram is the cartridge's bytearray(8192)
C_CartCpuRead(cart, prg_ram, addr) ==
    IF addr >= 24576 /\ addr <= 32767 THEN Peek(prg_ram, addr - 24576)
    ELSE IF addr >= 32768 /\ addr <= 65535
    THEN PrgRomAt(cart.rom, C_PrgIndex(cart, addr))
    ELSE 0

\* CATNES Bus.__init__ with the prg_ram of the cartridge inserted
C_BusInit == [cpu_ram |-> ZeroBytes, prg_ram |-> ZeroBytes]

\* CATNES Bus.cpu_read(addr) with a cartridge inserted: the cartridge's answer
\* is never None, so it is what the call returns
C_BusCpuRead(b, cart, addr0) ==
    LET addr == addr0 % 65536
    IN  C_CartCpuRead(cart, b.prg_ram, addr)

\* CATNES Bus.cpu_write(addr, data) with a cartridge inserted, for addr outside
\* the PPU registers and the OAM DMA port: Cartridge.cpu_write returns None,
\* so the cartridge is written once and the Bus goes on to its own ranges
C_BusCpuWrite(b, cart, addr0, data0) ==
    LET addr == addr0 % 65536
        data == data0 % 256
        b1 == IF addr >= 24576 /\ addr <= 32767
              THEN [b EXCEPT !.prg_ram = Poke(@, addr - 24576, data)]
              ELSE b
    IN  IF addr <= 8191
        THEN [b1 EXCEPT !.cpu_ram = Poke(@, BitAnd(addr, 2047), data)]
        ELSE b1

\* Bus.cpu_read(addr) of each variant: the machine after it and the byte
RamReadOf(i, m, cart, addr) ==
    CASE i = "EMUNES5" -> E_BusCpuRead(m, cart, addr)
      [] i = "Monika" -> M_BusCpuRead(m, cart, addr)
      [] i = "CATNES" -> [m |-> m, data |-> C_BusCpuRead(m.bus, cart, addr)]

\* Bus.cpu_write(addr, data) of each variant
RamWriteOf(i, m, cart, addr, d) ==
    CASE i = "EMUNES5" -> E_BusCpuWrite(m, cart, addr, d)
      [] i = "Monika" -> M_BusCpuWrite(m, cart, addr, d)
      [] i = "CATNES" -> [m EXCEPT !.bus = C_BusCpuWrite(m.bus, cart, addr, d)]

\* RAM addresses: cells 0x000, 0x001 and 0x7FF and mirrors of them
RamAddrs == {0, 1, 2047, 2048, 4097, 6143, 8191}
\* a cartridge SRAM address and a PRG address
CartAddrs == {24576, 32768}
RamData == {0, 90, 255}

RamStart(i, r) ==
    CASE i = "EMUNES5" -> E_MachineInit(r)
      [] i = "Monika" -> M_MachineInit(r)
      [] i = "CATNES" -> [cpu |-> Absent, bus |-> C_BusInit, ppu |-> C_PpuInit]

InitRam ==
    /\ impl \in RamImpls
    /\ \E host \in {LoadRomOf(impl, GoodFile([code |-> "store", arg |-> 0]))} :
       \E m \in {RamStart(impl, host.cart)} :
          /\ rom = host /\ cpu = m.cpu /\ bus = m.bus /\ ppu = m.ppu
          /\ obs = [last |-> [op |-> "none", addr |-> 0, data |-> 0],
                    written |-> ZeroBytes, cells |-> {}]

\* a CPU write of d to address a
RamWrite(a, d) ==
    /\ LET m == [cpu |-> cpu, bus |-> bus, ppu |-> ppu]
       IN  \E res \in {RamWriteOf(impl, m, rom.cart, a, d)} :
              /\ cpu' = res.cpu /\ bus' = res.bus /\ ppu' = res.ppu
    /\ obs' = [last |-> [op |-> "write", addr |-> a, data |-> d],
               written |-> IF a <= 8191 THEN Poke(obs.written, a % 2048, d)
                           ELSE obs.written,
               cells |-> IF a <= 8191 THEN obs.cells \cup {a % 2048} ELSE obs.cells]
    /\ UNCHANGED <<impl, rom>>

\* a CPU read of address a
RamRead(a) ==
    /\ LET m == [cpu |-> cpu, bus |-> bus, ppu |-> ppu]
       IN  \E res \in {RamReadOf(impl, m, rom.cart, a)} :
              /\ cpu' = res.m.cpu /\ bus' = res.m.bus /\ ppu' = res.m.ppu
              /\ obs' = [obs EXCEPT !.last = [op |-> "read", addr |-> a, data |-> res.data]]
    /\ UNCHANGED <<impl, rom>>

NextRam ==
    \/ \E a \in RamAddrs, d \in RamData : RamWrite(a, d)
    \/ \E a \in CartAddrs, d \in RamData : RamWrite(a, d)
    \/ \E a \in RamAddrs : RamRead(a)
    \/ \E a \in CartAddrs : RamRead(a)

SpecRam == InitRam /\ [][NextRam]_vars

\* C30: with a cartridge inserted, a CPU read of an address in 0x0000..0x1FFF
\* returns the value last written to any address of 0x0000..0x1FFF congruent
\* to it modulo 0x800.
C30_RamMirrored ==
    (/\ obs.last.op = "read" /\ obs.last.addr <= 8191
     /\ (obs.last.addr % 2048) \in obs.cells) =>
        obs.last.data = Peek(obs.written, obs.last.addr % 2048)

(***************************************************************************)
(* The controller port 0x4016 of EMUNES5 and of EMUNES 1.0.1 (the file     *)
(* EMUNES1.0.1.15.23.255:31PMPST.py, variant "EMUNES101").  EMUNES5 has no *)
(* key handler: its controller1_state stays at the 0x00 of __init__.       *)
(* EMUNES101's on_key sets one entry of Bus.controller per key event.      *)
(* obs.strobe is bit 0 of the last byte written to the port; obs.expect    *)
(* holds the button bits still owed after a write of strobe 1 followed by a *)
(* write of strobe 0, while no key changed and nothing else was written.   *)
(***************************************************************************)
PadImpls == {"EMUNES5", "EMUNES101"}

\* EMUNES101 Bus.__init__: controller in the order of its dict, A first
P_BusInit ==
    [ram |-> ZeroBytes, controller |-> <<0, 0, 0, 0, 0, 0, 0, 0>>,
     strobe |-> FALSE, shift_reg |-> <<>>]

\* EMUNES101 Bus.read(addr) for addr below 0x8000: the bus after it and the
\* value returned
P_BusRead(b, addr) ==
    IF addr < 8192 THEN [bus |-> b, data |-> Peek(b.ram, BitAnd(addr, 2047))]
    ELSE IF addr = 16406
    THEN LET reg == IF b.strobe THEN b.controller ELSE b.shift_reg
         IN  IF reg # <<>>
             THEN [bus |-> [b EXCEPT !.shift_reg = Tail(reg)], data |-> Head(reg)]
             ELSE [bus |-> [b EXCEPT !.shift_reg = reg], data |-> 0]
    ELSE [bus |-> b, data |-> 0]

\* EMUNES101 Bus.write(addr, val)
P_BusWrite(b, addr, val) ==
    LET b1 == IF addr < 8192 THEN [b EXCEPT !.ram = Poke(@, BitAnd(addr, 2047), val)]
              ELSE b
    IN  IF addr = 16406 THEN [b1 EXCEPT !.strobe = (val % 2 = 1)] ELSE b1

\* EMUNES101 EMUNESApp.on_key for a mapped key: button k pressed or released
P_on_key(b, k, pressed) == [b EXCEPT !.controller[k] = IF pressed THEN 1 ELSE 0]

\* positions in Bus.controller of the buttons the key events of the model use:
\* A, B and Right
PadButtons == {1, 2, 8}
\* bytes written to 0x4016
StrobeData == {0, 1}

\* the eight bits of the live button state, A first
LiveBits(i, b) ==
    IF i = "EMUNES5" THEN [k \in 1..8 |-> (b.controller1_state \div (2 ^ (k - 1))) % 2]
    ELSE b.controller

\* the shift register the reads take their bits from
PadRegister(i, b) == IF i = "EMUNES5" THEN b.controller1_shift ELSE b.shift_reg

InitPad ==
    /\ impl \in PadImpls
    /\ \E host \in {LoadRomOf("EMUNES5", GoodFile([code |-> "store", arg |-> 0]))} :
       \E m \in {IF impl = "EMUNES5" THEN E_MachineInit(host.cart)
                 ELSE [cpu |-> Absent, bus |-> P_BusInit, ppu |-> Absent]} :
          /\ rom = host /\ cpu = m.cpu /\ bus = m.bus /\ ppu = m.ppu
          /\ obs = [last |-> [op |-> "none", data |-> 0, owed |-> -1, strobe |-> 0,
                              before |-> PadRegister(impl, m.bus)],
                    strobe |-> 0, expect |-> <<>>]

\* a key event of the host
PadKey(k, pressed) ==
    /\ impl = "EMUNES101"
    /\ bus' = P_on_key(bus, k, pressed)
    /\ bus' # bus
    /\ obs' = [obs EXCEPT !.last = [op |-> "key", data |-> k, owed |-> -1,
                                    strobe |-> obs.strobe,
                                    before |-> PadRegister(impl, bus)],
                          !.expect = <<>>]
    /\ UNCHANGED <<impl, rom, cpu, ppu>>

\* a CPU write of d to 0x4016
PadWrite(d) ==
    /\ IF impl = "EMUNES5"
       THEN \E res \in {E_BusCpuWrite([cpu |-> cpu, bus |-> bus, ppu |-> ppu],
                                      rom.cart, 16406, d)} :
               cpu' = res.cpu /\ bus' = res.bus /\ ppu' = res.ppu
       ELSE bus' = P_BusWrite(bus, 16406, d) /\ UNCHANGED <<cpu, ppu>>
    /\ obs' = [last |-> [op |-> "write", data |-> d, owed |-> -1, strobe |-> obs.strobe,
                         before |-> PadRegister(impl, bus)],
               strobe |-> d % 2,
               expect |-> IF d % 2 = 0 /\ obs.strobe = 1 THEN LiveBits(impl, bus)
                          ELSE <<>>]
    /\ UNCHANGED <<impl, rom>>

\* a CPU read of 0x4016
PadRead ==
    /\ \E res \in {IF impl = "EMUNES5"
                   THEN E_BusCpuRead([cpu |-> cpu, bus |-> bus, ppu |-> ppu],
                                     rom.cart, 16406)
                   ELSE LET rd == P_BusRead(bus, 16406)
                        IN  [m |-> [cpu |-> cpu, bus |-> rd.bus, ppu |-> ppu],
                             data |-> rd.data]} :
          /\ cpu' = res.m.cpu /\ bus' = res.m.bus /\ ppu' = res.m.ppu
          /\ obs' = [obs EXCEPT
                       !.last = [op |-> "read", data |-> res.data,
                                 owed |-> IF obs.expect # <<>> THEN Head(obs.expect)
                                          ELSE -1,
                                 strobe |-> obs.strobe,
                                 before |-> PadRegister(impl, bus)],
                       !.expect = IF obs.expect # <<>> THEN Tail(obs.expect) ELSE <<>>]
    /\ UNCHANGED <<impl, rom>>

NextPad ==
    \/ \E k \in PadButtons, pressed \in BOOLEAN : PadKey(k, pressed)
    \/ \E d \in StrobeData : PadWrite(d)
    \/ PadRead

SpecPad == InitPad /\ [][NextPad]_vars

\* C31: after a write of strobe 1 and then of strobe 0 to 0x4016, with the
\* buttons unchanged since, the next eight reads of 0x4016 return in bit 0 the
\* eight bits of the button state, A first; and a read made while the strobe
\* is 1 leaves the shift register as it was.
C31_PadReads ==
    obs.last.op = "read" =>
        /\ obs.last.owed # -1 => obs.last.data % 2 = obs.last.owed
        /\ obs.last.strobe = 1 => PadRegister(impl, bus) = obs.last.before

(***************************************************************************)
(* Nametable and palette storage behind Bus.ppu_write and Bus.ppu_read of  *)
(* EMUNES5 and MonikaNES, for cartridges of both mirroring modes.  The     *)
(* writes are the ones a PPUDATA write hands to the Bus; Bus.ppu_read      *)
(* changes nothing, so what an address reads is a function of the state.   *)
(***************************************************************************)
\* Bus.ppu_write(addr, data) of each variant
PpuBusWriteOf(i, m, r, addr, d) ==
    IF i = "EMUNES5" THEN E_BusPpuWrite(m, r, addr, d) ELSE M_BusPpuWrite(m, r, addr, d)

\* offsets k inside a nametable: its first and last byte
NtOffsets == {0, 1023}
\* 0x2000 + 0x400 n + k for the four nametables, and the mirrors of the first
\* and last nametable at 0x3000
NtAddrs == {8192 + 1024 * n + k : n \in 0..3, k \in NtOffsets}
               \cup {12288 + k : k \in NtOffsets}
VramData == {17, 42}
\* flags 6 of the header: horizontal and vertical mirroring
MirrorFlags == {0, 1}
MaxNtWrites == 3

\* the nametable (0..3) and the offset an address of 0x2000..0x3EFF names
NtTable(addr) == ((addr - 8192) \div 1024) % 4

NtOffset(addr) == addr % 1024

\* the byte behind a nametable under the mode: A,A,B,B resp. A,B,A,B
NtBank(mode, n) == IF mode = 0 THEN n \div 2 ELSE n % 2

VramObs(op, addr, d, m) ==
    [op |-> op, addr |-> addr, data |-> d, before |-> [ppu |-> m.ppu, bus |-> m.bus]]

InitNt ==
    /\ impl \in DataImpls
    /\ \E f6 \in MirrorFlags :
       \E host \in {LoadRomOf(impl, FileOf([code |-> "store", arg |-> 0], Magic,
                                           HeaderSize + PrgBank, 1, 0, f6, 0))} :
       \E m \in {MachineInitOf(impl, host.cart)} :
          /\ rom = host /\ cpu = m.cpu /\ bus = m.bus /\ ppu = m.ppu
          /\ obs = [writes |-> 0, last |-> VramObs("none", 0, 0, m)]

\* a write of d to PPU address a through the Bus
VramWrite(a, d, max) ==
    /\ obs.writes < max
    /\ LET m == [cpu |-> cpu, bus |-> bus, ppu |-> ppu]
       IN  \E res \in {PpuBusWriteOf(impl, m, rom.cart, a, d)} :
              /\ ppu' = res.ppu /\ bus' = res.bus
              /\ obs' = [writes |-> obs.writes + 1, last |-> VramObs("write", a, d, m)]
    /\ UNCHANGED <<impl, rom, cpu>>

NtWrite == \E a \in NtAddrs, d \in VramData : VramWrite(a, d, MaxNtWrites)

NextNt == NtWrite

SpecNt == InitNt /\ [][NextNt]_vars

\* what PPU address a reads now, and what it read before the last write
VramNow(a) == PpuMemOf(impl, [cpu |-> cpu, bus |-> bus, ppu |-> ppu], rom.cart, a)

VramBefore(a) ==
    PpuMemOf(impl, [cpu |-> cpu, bus |-> obs.last.before.bus, ppu |-> obs.last.before.ppu],
             rom.cart, a)

\* C32: in horizontal mode nametables 0 and 1 are one byte array and 2 and 3
\* another; in vertical mode 0 and 2 are one and 1 and 3 another: a write at
\* offset k of a nametable is read back at offset k of the nametable paired
\* with it and leaves offset k of the other two as they were.
C32_NametableMirroring ==
    obs.last.op = "write" =>
        \A a \in NtAddrs :
            NtOffset(a) = NtOffset(obs.last.addr) =>
                IF NtBank(rom.cart.mirror_mode, NtTable(a))
                       = NtBank(rom.cart.mirror_mode, NtTable(obs.last.addr))
                THEN VramNow(a) = obs.last.data
                ELSE VramNow(a) = VramBefore(a)

\* palette entries: the four aliased pairs, and entries of the background and
\* sprite halves that have no alias
PalEntries == {0, 4, 8, 12, 16, 20, 24, 28} \cup {1, 5, 17, 31}
MaxPalWrites == 2

InitPal == InitNt

PalWrite == \E e \in PalEntries, d \in VramData : VramWrite(16128 + e, d, MaxPalWrites)

NextPal == PalWrite

SpecPal == InitPal /\ [][NextPal]_vars

\* the palette entry that shares storage with entry e: 0x10, 0x14, 0x18 and
\* 0x1C with 0x00, 0x04, 0x08 and 0x0C, every other entry with itself alone
PalCell(e) == IF e \in {16, 20, 24, 28} THEN e - 16 ELSE e

\* C33: palette entries 0x10, 0x14, 0x18, 0x1C alias 0x00, 0x04, 0x08, 0x0C
\* and no other two entries share storage: a write to an entry is read back
\* at the entry and at its alias and leaves every other entry as it was.
C33_PaletteAliases ==
    (obs.last.op = "write" /\ obs.last.addr >= 16128) =>
        \A e \in PalEntries :
            IF PalCell(e) = PalCell(obs.last.addr - 16128)
            THEN VramNow(16128 + e) = obs.last.data
            ELSE VramNow(16128 + e) = VramBefore(16128 + e)

(***************************************************************************)
(* The vertical scroll increment as PPU2C02.clock performs it: EMUNES5's   *)
(* increment_scroll_y tests the rendering bits itself, MonikaNES's clock   *)
(* tests them before it calls increment_v.  v and the mask are drawn at    *)
(* the start; each step applies the increment once more.                   *)
(***************************************************************************)
\* fields of a VRAM address
FineY(v) == (v \div 4096) % 8

CoarseY(v) == (v \div 32) % 32

CoarseX(v) == v % 32

NtX(v) == (v \div 1024) % 2

NtY(v) == (v \div 2048) % 2

VramAddr(fy, ny, nx, cy, cx) == fy * 4096 + ny * 2048 + nx * 1024 + cy * 32 + cx

ScrollAddrs ==
    {VramAddr(fy, ny, nx, cy, cx) :
        fy \in {0, 6, 7}, ny \in {0, 1}, nx \in {0, 1}, cy \in {0, 28, 29, 30, 31},
        cx \in {0, 31}}
\* PPUMASK values: rendering off, background on
ScrollMasks == {0, 8}
MaxScrollSteps == 3

\* a PPU with the mask register set
WithMask(i, p, mask) ==
    IF i = "EMUNES5" THEN [p EXCEPT !.ppumask = mask] ELSE [p EXCEPT !.PPUMASK = mask]

RenderingOf(i, p) == IF i = "EMUNES5" THEN E_Rendering(p) ELSE M_Rendering(p)

\* the vertical increment of clock(): the VRAM address after it
IncrementYOf(i, p) ==
    IF i = "EMUNES5" THEN E_increment_scroll_y(p, p.v)
    ELSE IF M_Rendering(p) THEN M_increment_v(p.vram_addr) ELSE p.vram_addr

InitScrollY ==
    /\ impl \in DataImpls
    /\ \E v \in ScrollAddrs, mask \in ScrollMasks :
          /\ ppu = WithPortV(impl, WithMask(impl, PpuInitOf(impl), mask), v)
          /\ obs = [steps |-> 0, before |-> v]
    /\ cpu = Absent /\ bus = Absent
    /\ rom = HostInit(GoodFile([code |-> "store", arg |-> 0]))

ScrollYStep ==
    /\ obs.steps < MaxScrollSteps
    /\ ppu' = WithPortV(impl, ppu, IncrementYOf(impl, ppu))
    /\ obs' = [steps |-> obs.steps + 1, before |-> PortV(impl, ppu)]
    /\ UNCHANGED <<impl, cpu, bus, rom>>

NextScrollY == ScrollYStep

SpecScrollY == InitScrollY /\ [][NextScrollY]_vars

\* C34: the vertical increment (made with rendering enabled) at fine Y 7 sets
\* fine Y to 0 and then sets coarse Y 29 to 0 toggling the vertical nametable
\* bit, sets coarse Y 31 to 0 without toggling it, and otherwise adds 1 to
\* coarse Y; below fine Y 7 it only adds 1 to fine Y; it never changes coarse
\* X or the horizontal nametable bit.
C34_VerticalIncrement ==
    (obs.steps > 0 /\ RenderingOf(impl, ppu)) =>
        LET v0 == obs.before
            v1 == PortV(impl, ppu)
        IN  /\ CoarseX(v1) = CoarseX(v0) /\ NtX(v1) = NtX(v0)
            /\ v1 \div 32768 = v0 \div 32768
            /\ IF FineY(v0) < 7
               THEN /\ FineY(v1) = FineY(v0) + 1
                    /\ CoarseY(v1) = CoarseY(v0) /\ NtY(v1) = NtY(v0)
               ELSE /\ FineY(v1) = 0
                    /\ CoarseY(v0) = 29 => CoarseY(v1) = 0 /\ NtY(v1) = 1 - NtY(v0)
                    /\ CoarseY(v0) = 31 => CoarseY(v1) = 0 /\ NtY(v1) = NtY(v0)
                    /\ CoarseY(v0) \notin {29, 31} =>
                          CoarseY(v1) = CoarseY(v0) + 1 /\ NtY(v1) = NtY(v0)

\* an increment at fine Y 7 and coarse Y 31 that wrapped coarse Y without
\* toggling the nametable bit
C34_Witness ==
    /\ obs.steps > 0 /\ RenderingOf(impl, ppu)
    /\ FineY(obs.before) = 7 /\ CoarseY(obs.before) = 31
    /\ CoarseY(PortV(impl, ppu)) = 0 /\ NtY(PortV(impl, ppu)) = NtY(obs.before)

(***************************************************************************)
(* The pre-render scanline around cycles 280..304: the PPU is clocked from *)
(* cycle CopyFirstCycle of scanline 261 with v, t and the mask drawn at    *)
(* the start.                                                              *)
(***************************************************************************)
CopyAddrsV == {0, 32767, VramAddr(5, 1, 0, 17, 9)}
CopyAddrsT == {0, 32767, VramAddr(2, 0, 1, 30, 31)}
\* PPUMASK values: rendering off, background on, sprites on
CopyMasks == {0, 8, 16}
CopyFirstCycle == 278
CopyLastCycle == 306

\* a PPU with the temporary VRAM address set
WithPortT(i, p, t) ==
    IF i = "EMUNES5" THEN [p EXCEPT !.t = t] ELSE [p EXCEPT !.temp_vram_addr = t]

InitCopyY ==
    /\ impl \in DataImpls
    /\ \E v \in CopyAddrsV, t \in CopyAddrsT, mask \in CopyMasks :
          /\ ppu = [WithPortT(impl, WithPortV(impl, WithMask(impl, PpuInitOf(impl), mask), v), t)
                       EXCEPT !.scanline = LastScanline, !.cycle = CopyFirstCycle]
          /\ obs = [start |-> v, before |-> v]
    /\ cpu = Absent /\ bus = Absent
    /\ rom = HostInit(GoodFile([code |-> "store", arg |-> 0]))

\* PPU2C02.clock() on the pre-render scanline
CopyClock ==
    /\ ppu.scanline = LastScanline /\ ppu.cycle < CopyLastCycle
    /\ ppu' = PpuClockOf(impl, ppu).ppu
    /\ obs' = [obs EXCEPT !.before = PortV(impl, ppu)]
    /\ UNCHANGED <<impl, cpu, bus, rom>>

NextCopyY == CopyClock

SpecCopyY == InitCopyY /\ [][NextCopyY]_vars

\* the PPU has just run one of cycles 280..304 of the pre-render scanline
AfterCopyCycle ==
    ppu.scanline = LastScanline /\ ppu.cycle >= 281 /\ ppu.cycle <= 305

\* C35: with rendering enabled, after each of cycles 280..304 of the
\* pre-render scanline the fine Y, coarse Y and vertical nametable bits of v
\* equal those of t, and the coarse X and horizontal nametable bits of v are
\* what they were before the cycle.
C35_VerticalCopy ==
    (AfterCopyCycle /\ RenderingOf(impl, ppu)) =>
        LET v == PortV(impl, ppu)
            t == PortT(impl, ppu)
        IN  /\ FineY(v) = FineY(t) /\ CoarseY(v) = CoarseY(t) /\ NtY(v) = NtY(t)
            /\ CoarseX(v) = CoarseX(obs.before) /\ NtX(v) = NtX(obs.before)

(***************************************************************************)
(* Instruction costs: the "abx" programs, clocked through the reset and    *)
(* their five instructions.  With arg 1 the index X is 1 and both indexed  *)
(* accesses cross a page; with arg 0 neither does.                         *)
(***************************************************************************)
CostImages == {[code |-> "abx", arg |-> x] : x \in {0, 1}}
MaxCostClocks == 40

InitCost ==
    /\ impl \in BusImpls
    /\ \E img \in CostImages :
       \E host \in {LoadRomOf(impl, GoodFile(img))} :
       \E m \in {MachineInitOf(impl, host.cart)} :
          /\ rom = host /\ cpu = m.cpu /\ bus = m.bus /\ ppu = m.ppu
          /\ obs = [clocks |-> 0,
                    last |-> [opcode |-> -1, at |-> 0, clock |-> 0,
                              cpu |-> m.cpu, ram |-> m.bus.cpu_ram],
                    prev |-> [opcode |-> -1, at |-> 0, clock |-> 0]]

CostStep == obs.clocks < MaxCostClocks /\ CpuStep

NextCost == CostStep

SpecCost == InitCost /\ [][NextCost]_vars

\* the base cycle count the 6502 tables give an opcode of the "abx" programs
BaseCycles(opcode) ==
    CASE opcode \in {234, 232, 169} -> 2
      [] opcode = 76 -> 3
      [] opcode = 189 -> 4
      [] opcode = 157 -> 5

\* the instruction crossed a page and its operation pays for it: LDA abs,X
\* with X = 1; STA abs,X never pays
PaysPageCross(opcode) == opcode = 189 /\ rom.data.image.arg = 1

\* C36: a non-branch instruction takes its base count of cycles, plus 1 exactly
\* when its indexed addressing crossed a page and its operation pays the
\* penalty: LDA #imm 2, LDA abs,X 4 or 5, STA abs,X always 5.
C36_InstructionCost ==
    (rom.data.image.code = "abx" /\ obs.prev.opcode \in {234, 232, 169, 76, 189, 157}) =>
        obs.last.clock - obs.prev.clock
            = BaseCycles(obs.prev.opcode)
                + (IF PaysPageCross(obs.prev.opcode) THEN 1 ELSE 0)

\* C37: no access indexes a storage outside its bounds; in particular the OAM
\* DMA byte index, which Bus.clock uses to index the 256 bytes of OAM, stays
\* in 0..255.
C37_DmaIndexInOam == cpu.dma_addr >= 0 /\ cpu.dma_addr < OamSize

(***************************************************************************)
(* Reset of a session.  In EMUNES5 the Reset button runs                   *)
(* MonikaEmulatorApp.reset: cpu.reset(), then ppu.__init__() and           *)
(* ppu.connect_bus(bus).  In CATNES reset_emulation_action runs Bus.reset: *)
(* cpu.reset() and ppu.reset(), then clears frame_complete and             *)
(* nmi_occurred.  The CATNES machine of this section carries the PPU's     *)
(* tbl_name and tbl_palette next to the registers of C_PpuInit; its CPU    *)
(* is left out, its reset reads the vector and writes no memory.           *)
(* obs.before is the memory just before the last reset.                    *)
(***************************************************************************)
ResetImpls == {"EMUNES5", "CATNES"}

\* EMUNES5 MonikaEmulatorApp.reset()
E_HostReset(m, r) ==
    LET m1 == E_CpuReset(m, r)
    IN  [m1 EXCEPT !.ppu = E_PpuInit]

\* CATNES PPU2C02.__init__: the registers and "self.tbl_name", "self.tbl_palette"
C_PpuTablesInit ==
    C_PpuInit @@ [tbl_name |-> <<ZeroBytes, ZeroBytes>>, tbl_palette |-> ZeroBytes]

\* CATNES PPU2C02.reset()
C_PpuReset(p) ==
    [p EXCEPT !.PPUCTRL = 0, !.PPUMASK = 0, !.PPUSTATUS = 0, !.OAMADDR = 0,
              !.scanline = 0, !.cycle = 0, !.addr_latch = FALSE,
              !.vram_addr = 0, !.tram_addr = 0, !.fine_x_scroll = 0,
              !.internal_data_buffer = 0,
              !.tbl_name = <<ZeroBytes, ZeroBytes>>, !.tbl_palette = ZeroBytes]

\* CATNES reset_emulation_action with a ROM loaded: Bus.reset(), then
\* "self.ppu.frame_complete = False; self.ppu.nmi_occurred = False"
C_BusReset(m) ==
    [m EXCEPT !.ppu = [C_PpuReset(@) EXCEPT !.frame_complete = FALSE,
                                            !.nmi_occurred = FALSE]]

\* CATNES Bus.cpu_write(addr, data) with a cartridge inserted, PPU registers
\* included: a write of PPUDATA raises inside Cartridge.ppu_write before the
\* PPU stores anything or moves vram_addr
C_BusWriteAll(m, cart, addr, d) ==
    IF addr >= 8192 /\ addr <= 16383
    THEN IF BitAnd(addr, 7) = 7 /\ C_CartPpuWrite(cart, <<>>, m.ppu.vram_addr, d).raised
         THEN m
         ELSE [m EXCEPT !.ppu = C_PpuCpuWrite(@, BitAnd(addr, 7), d)]
    ELSE [m EXCEPT !.bus = C_BusCpuWrite(@, cart, addr, d)]

ResetWriteOf(i, m, cart, addr, d) ==
    IF i = "EMUNES5" THEN E_BusCpuWrite(m, cart, addr, d)
    ELSE C_BusWriteAll(m, cart, addr, d)

ResetOf(i, m, cart) ==
    IF i = "EMUNES5" THEN E_HostReset(m, cart) ELSE C_BusReset(m)

\* the bytes of CPU RAM, nametable VRAM, palette RAM, OAM and cartridge RAM
MemoryOf(i, m) ==
    IF i = "EMUNES5"
    THEN [cpu_ram |-> m.bus.cpu_ram, vram |-> m.ppu.vram,
          palette |-> m.ppu.palette_ram, oam |-> m.ppu.oam,
          cart_ram |-> m.bus.chr_ram]
    ELSE [cpu_ram |-> m.bus.cpu_ram, vram |-> m.ppu.tbl_name,
          palette |-> m.ppu.tbl_palette, oam |-> m.ppu.oam,
          cart_ram |-> m.bus.prg_ram]

\* a RAM cell, cartridge SRAM, OAMDATA, PPUADDR and PPUDATA
ResetAddrs == {5, 24576, 8196, 8198, 8199}
ResetData == {33, 63}
MaxResetWrites == 4

ResetStart(i, r) ==
    IF i = "EMUNES5" THEN E_MachineInit(r)
    ELSE [cpu |-> Absent, bus |-> C_BusInit, ppu |-> C_PpuTablesInit]

InitReset ==
    /\ impl \in ResetImpls
    /\ \E host \in {LoadRomOf(impl, GoodFile([code |-> "store", arg |-> 0]))} :
       \E m \in {ResetStart(impl, host.cart)} :
          /\ rom = host /\ cpu = m.cpu /\ bus = m.bus /\ ppu = m.ppu
          /\ obs = [writes |-> 0, op |-> "none", before |-> MemoryOf(impl, m)]

ResetWrite(a, d) ==
    /\ obs.writes < MaxResetWrites
    /\ LET m == [cpu |-> cpu, bus |-> bus, ppu |-> ppu]
       IN  \E res \in {ResetWriteOf(impl, m, rom.cart, a, d)} :
              /\ cpu' = res.cpu /\ bus' = res.bus /\ ppu' = res.ppu
    /\ obs' = [obs EXCEPT !.writes = @ + 1, !.op = "write"]
    /\ UNCHANGED <<impl, rom>>

Reset ==
    /\ obs.op # "reset"
    /\ LET m == [cpu |-> cpu, bus |-> bus, ppu |-> ppu]
       IN  \E res \in {ResetOf(impl, m, rom.cart)} :
              /\ cpu' = res.cpu /\ bus' = res.bus /\ ppu' = res.ppu
              /\ obs' = [obs EXCEPT !.op = "reset", !.before = MemoryOf(impl, m)]
    /\ UNCHANGED <<impl, rom>>

NextReset ==
    \/ \E a \in ResetAddrs, d \in ResetData : ResetWrite(a, d)
    \/ Reset

SpecReset == InitReset /\ [][NextReset]_vars

\* C38: reset() re-initialises CPU and PPU registers only: CPU RAM, nametable
\* VRAM, palette RAM, OAM and cartridge RAM hold the same bytes after the
\* reset as before it.
C38_ResetKeepsMemory ==
    obs.op = "reset" =>
        MemoryOf(impl, [cpu |-> cpu, bus |-> bus, ppu |-> ppu]) = obs.before

(***************************************************************************)
(* The instruction-stepped drivers: the inner loop of emulation_loop of    *)
(* CatNES4k and of _loop of CATEMU.  The CPU of this section is its cycle  *)
(* counter, 7 after reset(); an instruction handler adds its cost to it.   *)
(* obs.cyc is the local cycle count of the frame being run, obs.cpu_total  *)
(* the CPU cycles the steps consumed so far.                               *)
(***************************************************************************)
DriveImpls == {"CatNES4k", "CATEMU"}

\* the costs the opcode handlers add to self.cycles
DriveCosts == {2, 3, 4}
MaxDriveSteps == 10

\* CatNES4k CPU6502.step() with a handler of cost used: the counter after it
\* and the value returned, "return self.cycles"
K_step(cycles, used) ==
    [cycles |-> cycles + used, returned |-> cycles + used]

\* CATEMU CPU6502.step() with a handler of cost used
X_step(cycles, used) ==
    LET c1 == cycles + used
        u == IF c1 - cycles <= 0 THEN 2 ELSE c1 - cycles
        c2 == IF c1 - cycles <= 0 THEN c1 + 2 ELSE c1
    IN  [cycles |-> IF c2 > 1000000000 THEN 0 ELSE c2, returned |-> u]

\* CatNES4k tick(n): its loop of 3 * n iterations, run three CPU cycles' worth
\* at a time
RECURSIVE K_TickChunks(_, _)
K_TickChunks(p, n) ==
    IF n <= 3 THEN K_tick(p, n).ppu
    ELSE LET q == K_tick(p, 3).ppu
         IN  IF q.cycle <= LastCycle THEN K_TickChunks(q, n - 3) ELSE q

InitDrive ==
    /\ impl \in DriveImpls
    /\ ppu = PpuInitOf(impl)
    /\ cpu = [cycles |-> 7]
    /\ bus = Absent /\ rom = Absent
    /\ obs = [steps |-> 0, cyc |-> 0, cpu_total |-> 0]

\* CatNES4k emulation_loop, one iteration of the inner loop: cpu.nmi() if the
\* PPU requested it, cpu.step(), ppu.tick() with what step() returned
K_DriveStep(used) ==
    /\ impl = "CatNES4k"
    /\ obs.steps < MaxDriveSteps
    /\ LET c0 == IF ppu.nmi_occurred THEN cpu.cycles + 7 ELSE cpu.cycles
           s == K_step(c0, used)
       IN  /\ cpu' = [cpu EXCEPT !.cycles = s.cycles]
           /\ ppu' = K_TickChunks([ppu EXCEPT !.nmi_occurred = FALSE], s.returned)
           /\ obs' = [steps |-> obs.steps + 1, cyc |-> obs.cyc + s.returned,
                      cpu_total |-> obs.cpu_total + (s.cycles - cpu.cycles)]
    /\ UNCHANGED <<impl, bus, rom>>

\* CATEMU _loop, one iteration of the inner loop:
\* "cyc += self.cpu.step(); self.bus.ppu.tick(cyc)"
X_DriveStep(used) ==
    /\ impl = "CATEMU"
    /\ obs.steps < MaxDriveSteps
    /\ LET s == X_step(cpu.cycles, used)
           cyc == obs.cyc + s.returned
       IN  /\ cpu' = [cpu EXCEPT !.cycles = s.cycles]
           /\ ppu' = X_tick(ppu, cyc)
           /\ obs' = [steps |-> obs.steps + 1, cyc |-> cyc,
                      cpu_total |-> obs.cpu_total + s.returned]
    /\ UNCHANGED <<impl, bus, rom>>

NextDrive ==
    \/ \E used \in DriveCosts : K_DriveStep(used)
    \/ \E used \in DriveCosts : X_DriveStep(used)

SpecDrive == InitDrive /\ [][NextDrive]_vars

\* the PPU cycles run since the session started
PpuTotal ==
    IF impl = "CatNES4k" THEN ppu.scanline * (LastCycle + 1) + ppu.cycle ELSE ppu.cycle

\* C39: in the instruction-stepped drivers each CPU step that consumes c CPU
\* cycles advances the PPU by 3*c PPU cycles, so after any number of steps the
\* PPU cycle total is 3 times the CPU cycle total.
C39_ThreeToOne == PpuTotal = 3 * obs.cpu_total

(***************************************************************************)
(* The Run/Pause button and the worker threads of CATEMU, of               *)
(* ChatGPTPRO5.23.25EMUAINES ("GIGA") and of CatNES4k, with a ROM loaded.  *)
(* The host h is [running, pcs, thread, started]: the run flag             *)
(* (is_running, running, is_running_emulation), the position of every      *)
(* thread started so far, the thread handle the host keeps (0 for None)    *)
(* and the number of threads started.  A thread is at "outer" before the   *)
(* test of the outer while, at "inner" before the test of the inner while, *)
(* at "step" before cpu.step() and ppu.tick(), at "after" (CatNES4k) past  *)
(* the inner loop, at "exiting" between the loop and the end of the thread *)
(* and at "done" once it ended.  The button handler runs on the Tk main    *)
(* thread and is taken as one step; the workers move one statement at a    *)
(* time between such steps.                                                *)
(***************************************************************************)
ThreadImpls == {"CATEMU", "GIGA", "CatNES4k"}
MaxThreads == 3

ThreadIds == 1..MaxThreads

\* threading.Thread(target=..., daemon=True).start()
NewThread(h) ==
    [h EXCEPT !.pcs[h.started + 1] = "outer", !.started = h.started + 1]

\* Thread.is_alive() of the handle the host keeps
IsAlive(h) == h.thread # 0 /\ h.pcs[h.thread] \notin {"unborn", "done"}

\* CATEMU EMUNESApp._toggle()
X_toggle(h) ==
    LET h1 == [h EXCEPT !.running = ~h.running]
    IN  IF h1.running THEN NewThread(h1) ELSE h1

\* ChatGPTPRO EMUNESApp._toggle_run()
G_toggle_run(h) ==
    IF ~h.running
    THEN [NewThread([h EXCEPT !.running = TRUE]) EXCEPT !.thread = h.started + 1]
    ELSE [h EXCEPT !.running = FALSE]

\* CatNES4k EMUNESApp.toggle_run_pause()
K_toggle_run_pause(h) ==
    IF h.running THEN [h EXCEPT !.running = FALSE]
    ELSE LET h1 == [h EXCEPT !.running = TRUE]
         IN  IF ~IsAlive(h1)
             THEN [NewThread(h1) EXCEPT !.thread = h.started + 1]
             ELSE h1

\* CATEMU EMUNESApp._loop(), the next statement of thread t; more is
\* "cyc < frame_cycles_target"
X_loop(h, t, more) ==
    CASE h.pcs[t] = "outer" ->
           [h EXCEPT !.pcs[t] = IF h.running THEN "inner" ELSE "done"]
      [] h.pcs[t] = "inner" ->
           [h EXCEPT !.pcs[t] = IF more /\ h.running THEN "step" ELSE "outer"]
      [] h.pcs[t] = "step" -> [h EXCEPT !.pcs[t] = "inner"]
      [] OTHER -> h

\* ChatGPTPRO EMUNESApp._emulation_loop(), the next statement of thread t;
\* more is "cyc_count < cyc_target"
G_emulation_loop(h, t, more) ==
    CASE h.pcs[t] = "outer" ->
           [h EXCEPT !.pcs[t] = IF h.running THEN "inner" ELSE "done"]
      [] h.pcs[t] = "inner" ->
           [h EXCEPT !.pcs[t] = IF more THEN "step" ELSE "outer"]
      [] h.pcs[t] = "step" -> [h EXCEPT !.pcs[t] = "inner"]
      [] OTHER -> h

\* CatNES4k EMUNESApp.emulation_loop(), the next statement of thread t; more
\* is "cycles_this_frame < target_cycles_for_frame"
K_emulation_loop(h, t, more) ==
    CASE h.pcs[t] = "outer" ->
           [h EXCEPT !.pcs[t] = IF h.running THEN "inner" ELSE "exiting"]
      [] h.pcs[t] = "inner" ->
           [h EXCEPT !.pcs[t] = IF more THEN "step" ELSE "after"]
      [] h.pcs[t] = "step" ->
           [h EXCEPT !.pcs[t] = IF ~h.running THEN "after" ELSE "inner"]
      [] h.pcs[t] = "after" ->
           [h EXCEPT !.pcs[t] = IF ~h.running THEN "exiting" ELSE "outer"]
      [] h.pcs[t] = "exiting" -> [h EXCEPT !.pcs[t] = "done"]
      [] OTHER -> h

ToggleOf(i, h) ==
    CASE i = "CATEMU" -> X_toggle(h)
      [] i = "GIGA" -> G_toggle_run(h)
      [] i = "CatNES4k" -> K_toggle_run_pause(h)

LoopOf(i, h, t, more) ==
    CASE i = "CATEMU" -> X_loop(h, t, more)
      [] i = "GIGA" -> G_emulation_loop(h, t, more)
      [] i = "CatNES4k" -> K_emulation_loop(h, t, more)

InitThreads ==
    /\ impl \in ThreadImpls
    /\ cpu = Absent /\ bus = Absent /\ ppu = Absent /\ rom = Absent
    /\ obs = [running |-> FALSE, pcs |-> [t \in ThreadIds |-> "unborn"],
              thread |-> 0, started |-> 0]

\* a click on the Run/Pause button
Toggle ==
    /\ obs.running \/ IsAlive(obs) \/ obs.started < MaxThreads
    /\ impl \in {"CATEMU", "GIGA"} => (obs.running \/ obs.started < MaxThreads)
    /\ obs' = ToggleOf(impl, obs)
    /\ UNCHANGED <<impl, cpu, bus, ppu, rom>>

\* the next statement of worker t
WorkerStep(t, more) ==
    /\ obs.pcs[t] \notin {"unborn", "done"}
    /\ obs' = LoopOf(impl, obs, t, more)
    /\ UNCHANGED <<impl, cpu, bus, ppu, rom>>

NextThreads ==
    \/ Toggle
    \/ \E t \in ThreadIds, more \in BOOLEAN : WorkerStep(t, more)

SpecThreads == InitThreads /\ [][NextThreads]_vars

\* the threads that are executing the emulation loop
Workers == {t \in ThreadIds : obs.pcs[t] \in {"outer", "inner", "step", "after"}}

\* C40: under any interleaving of Run and Pause toggles with the worker's
\* loop, at most one worker thread is executing the emulation loop of a
\* session at any time.
C40_OneWorker == Cardinality(Workers) <= 1

====
